---- MODULE Spec2Model ----
(***************************************************************************)
(* Merkle membership / commitment-opening circuits of the                  *)
(* fantastic-snarks-homework repository.                                   *)
(*                                                                         *)
(* Byte strings are sequences of segments:                                 *)
(*   <<0, n>>   one literal byte of value n                                *)
(*   <<1, d>>   the 32 bytes of the x coordinate of the curve point d      *)
(*   <<2, d>>   the 32 bytes of the y coordinate of the curve point d      *)
(* File contents use <<0, n>> and <<3, <<p, lo, hi>>>>, bytes lo..hi of    *)
(* the compressed form of the curve point p.                               *)
(* A curve point produced by a Pedersen hash is the term <<h, input>>,     *)
(* h = 0 for the leaf hash and h = 1 for the two-to-one hash, where input  *)
(* is the hashed byte string up to the zero padding the hash applies.      *)
(* Two such terms are equal exactly when the padded inputs are equal: the  *)
(* hashes are treated as collision-free.                                   *)
(***************************************************************************)
EXTENDS Integers, Sequences, FiniteSets, TLC

\* ------------------------------------------------------------------------
\* Bytes and field elements
\* ------------------------------------------------------------------------

\* Bytes of a serialized field element (BLS12-381 Fr, 4 limbs of 64 bits).
FieldBytes == 32

\* Bits FpVar::to_bits_le yields for a field element (modulus bit size).
FieldBits == 255

Lit(n) == <<0, n>>

SegLen(s) == IF s[1] = 0 THEN 1 ELSE FieldBytes

ByteLen(bs) ==
    Cardinality({i \in 1..Len(bs) : bs[i][1] = 0})
        + FieldBytes * Cardinality({i \in 1..Len(bs) : bs[i][1] # 0})

Literal(ns) == [i \in 1..Len(ns) |-> Lit(ns[i])]

Zeros(n) == [i \in 1..n |-> Lit(0)]

\* F::serialize_uncompressed: the little-endian bytes of the element.
RECURSIVE ShiftRight(_, _, _)
ShiftRight(v, base, k) == IF k = 0 \/ v = 0 THEN v ELSE ShiftRight(v \div base, base, k - 1)

LEBytes(v, n) == [i \in 1..n |-> Lit(ShiftRight(v, 256, i - 1) % 256)]

FSerialize(v) == LEBytes(v, FieldBytes)

\* FpVar::to_bits_le: the bits of the element, least significant first.
BitsLE(v, n) == [i \in 1..n |-> ShiftRight(v, 2, i - 1) % 2]

\* UInt8::from_bits_le on one chunk of eight bits.
RECURSIVE FromBitsLE(_)
FromBitsLE(bits) == IF bits = <<>> THEN 0 ELSE Head(bits) + 2 * FromBitsLE(Tail(bits))

Chunks8(bits) ==
    [k \in 1..(Len(bits) \div 8) |-> Lit(FromBitsLE(SubSeq(bits, 8 * k - 7, 8 * k)))]

\* FpVar::to_bytes: to_bits_le, padded with false to 4 * 64 bits, packed
\* eight bits to a byte.
FVToBytes(v) ==
    LET bits == BitsLE(v, FieldBits)
        padded == bits \o [i \in 1..(FieldBytes * 8 - FieldBits) |-> 0]
    IN  Chunks8(padded)

\* ------------------------------------------------------------------------
\* Two-tier Pedersen hash (src/src/hash.rs)
\* ------------------------------------------------------------------------

LeafWindowSize == 6
LeafNumWindows == 128
TwoToOneWindowSize == 8
TwoToOneNumWindows == 144

LeafCapacityBits == LeafWindowSize * LeafNumWindows
TwoToOneCapacityBits == TwoToOneWindowSize * TwoToOneNumWindows

\* The hash pads its input with zero bytes up to the window capacity, so the
\* digest depends on the input only up to trailing zero bytes.
StripZeros(bs) ==
    LET nonzero == {i \in 1..Len(bs) : bs[i] # Lit(0)}
        last == IF nonzero = {} THEN 0
                ELSE CHOOSE i \in nonzero : \A j \in nonzero : j <= i
    IN  SubSeq(bs, 1, last)

\* A capacity check that also refuses an input of exactly the capacity.
LeafHashFitsBelowCapacity(input) == ByteLen(input) * 8 < LeafCapacityBits

\* pedersen::CRH::evaluate refuses an input longer than the capacity.
LeafHashFits(input) == ByteLen(input) * 8 <= LeafCapacityBits

\* A leaf hash that reads only the first byte of its input.
LeafHashFirstByteOnly(input) == <<0, StripZeros(SubSeq(input, 1, 1))>>

LeafHash(input) == <<0, StripZeros(input)>>

\* Uncompressed serialization of a curve point: x then y.
SerializeUncompressed(d) == << <<1, d>>, <<2, d>> >>

\* ByteDigestConverter::convert
LeafInnerDigestConverter(d) == SerializeUncompressed(d)

\* pedersen::TwoToOneCRH::evaluate: both halves fit half the capacity and are
\* hashed as left || right.
TwoToOneFits(l, r) ==
    /\ ByteLen(l) = ByteLen(r)
    /\ ByteLen(l) * 8 * 2 <= TwoToOneCapacityBits

\* A two-to-one hash whose buffer receives the left half only.
TwoToOneEvaluateLeftOnly(l, r) == <<1, StripZeros(l)>>

TwoToOneEvaluate(l, r) == <<1, StripZeros(l \o r)>>

\* pedersen::TwoToOneCRH::compress: evaluate on the serialized digests.
TwoToOneCompress(l, r) == TwoToOneEvaluate(SerializeUncompressed(l), SerializeUncompressed(r))

\* ------------------------------------------------------------------------
\* Native Merkle tree and authentication path (src/src/merkle.rs,
\* src/arkworks/src/lib.rs): MerkleTree<MerkleConfig>, Path<MerkleConfig>
\* ------------------------------------------------------------------------

\* Largest number of leaves handed to SimpleMerkleTree::new.
MaxLeaves == 8

\* Leaf byte strings the model builds trees from: b"1" and b"10".
LeafValues == {<<49>>, <<49, 48>>}

\* Byte values used when one byte of a claimed leaf is replaced.
ByteValues == {0, 48, 49}

RECURSIVE IsPowerOfTwo(_)
IsPowerOfTwo(n) == IF n <= 1 THEN n = 1 ELSE n % 2 = 0 /\ IsPowerOfTwo(n \div 2)

RECURSIVE Log2(_)
Log2(n) == IF n <= 1 THEN 0 ELSE 1 + Log2(n \div 2)

RECURSIVE Pow2(_)
Pow2(k) == IF k = 0 THEN 1 ELSE 2 * Pow2(k - 1)

tree_height(n) == IF n = 1 THEN 1 ELSE Log2(n) + 1

left_child(i) == 2 * i + 1
right_child(i) == 2 * i + 2
parent(i) == (i - 1) \div 2
is_left_child(i) == i % 2 = 1
sibling(i) == IF is_left_child(i) THEN i + 1 ELSE i - 1
is_root(i) == i = 0
convert_index_to_last_level(index, height) == index + Pow2(height - 1) - 1

\* A point sampled by MerkleRoot::rand, not the output of any hash call.
RandPoint(k) == <<2, <<Lit(k)>>>>

NoDigest == <<>>
NoTree == [leaf_nodes |-> <<>>, non_leaf_nodes |-> <<>>, height |-> 0]
NoPath == [leaf_sibling_hash |-> NoDigest, auth_path |-> <<>>, leaf_index |-> 0]

\* A length check that accepts every even number of leaves.
CanBuildEvenLength(ls) ==
    /\ \A i \in 1..Len(ls) : LeafHashFits(ls[i])
    /\ Len(ls) % 2 = 0
    /\ Len(ls) > 1

\* MerkleTree::new accepts a leaf list whose length is a power of two greater
\* than one and whose leaves fit the leaf hash; otherwise it panics.
CanBuild(ls) ==
    /\ \A i \in 1..Len(ls) : LeafHashFits(ls[i])
    /\ IsPowerOfTwo(Len(ls))
    /\ Len(ls) > 1

\* A construction that hashes the right child before the left one.
SimpleMerkleTreeNewRightFirst(ls) ==
    LET n == Len(ls)
        leaf_nodes == [i \in 1..n |-> LeafHash(ls[i])]
        upper_bound == n - 1
        node[i \in 0..(n - 2)] ==
            IF left_child(i) >= upper_bound
            THEN TwoToOneEvaluate(
                     LeafInnerDigestConverter(leaf_nodes[right_child(i) - upper_bound + 1]),
                     LeafInnerDigestConverter(leaf_nodes[left_child(i) - upper_bound + 1]))
            ELSE TwoToOneCompress(node[right_child(i)], node[left_child(i)])
    IN  [leaf_nodes |-> leaf_nodes,
         non_leaf_nodes |-> [i \in 1..(n - 1) |-> node[i - 1]],
         height |-> tree_height(n)]

\* MerkleTree::new: leaf digests, then the level above the leaves from the
\* converted leaf digests, then every higher level from its two children.
\* non_leaf_nodes[i + 1] holds the node of heap index i (the root is index 0).
SimpleMerkleTreeNew(ls) ==
    LET n == Len(ls)
        leaf_nodes == [i \in 1..n |-> LeafHash(ls[i])]
        upper_bound == n - 1
        node[i \in 0..(n - 2)] ==
            IF left_child(i) >= upper_bound
            THEN TwoToOneEvaluate(
                     LeafInnerDigestConverter(leaf_nodes[left_child(i) - upper_bound + 1]),
                     LeafInnerDigestConverter(leaf_nodes[right_child(i) - upper_bound + 1]))
            ELSE TwoToOneCompress(node[left_child(i)], node[right_child(i)])
    IN  [leaf_nodes |-> leaf_nodes,
         non_leaf_nodes |-> [i \in 1..(n - 1) |-> node[i - 1]],
         height |-> tree_height(n)]

\* MerkleTree::root
Root(t) == t.non_leaf_nodes[1]

\* MerkleTree::generate_proof indexes leaf_nodes with the sibling index and
\* panics when that is out of range.
CanGenerateProof(t, index) ==
    LET s == IF index % 2 = 0 THEN index + 1 ELSE index - 1
    IN  s >= 0 /\ s < Len(t.leaf_nodes) /\ index < Len(t.leaf_nodes)

\* Sibling digests collected only where the node is a right child.
RECURSIVE SiblingsUpOfRightChildren(_, _)
SiblingsUpOfRightChildren(t, current) ==
    IF is_root(current) THEN <<>>
    ELSE (IF is_left_child(current) THEN <<>> ELSE <<t.non_leaf_nodes[sibling(current) + 1]>>)
            \o SiblingsUpOfRightChildren(t, parent(current))

\* Sibling digests from the level above the leaves up to the children of the
\* root, bottom first.
RECURSIVE SiblingsUp(_, _)
SiblingsUp(t, current) ==
    IF is_root(current) THEN <<>>
    ELSE <<t.non_leaf_nodes[sibling(current) + 1]>> \o SiblingsUp(t, parent(current))

Reverse(s) == [i \in 1..Len(s) |-> s[Len(s) + 1 - i]]

\* A path whose auth_path is stored from the bottom upwards.
GenerateProofBottomFirst(t, index) ==
    LET leaf_index_in_tree == convert_index_to_last_level(index, t.height)
        leaf_sibling_hash == IF index % 2 = 0 THEN t.leaf_nodes[index + 2]
                             ELSE t.leaf_nodes[index]
    IN  [leaf_sibling_hash |-> leaf_sibling_hash,
         auth_path |-> SiblingsUp(t, parent(leaf_index_in_tree)),
         leaf_index |-> index]

\* MerkleTree::generate_proof: auth_path is stored from the root downwards.
GenerateProof(t, index) ==
    LET leaf_index_in_tree == convert_index_to_last_level(index, t.height)
        leaf_sibling_hash == IF index % 2 = 0 THEN t.leaf_nodes[index + 2]
                             ELSE t.leaf_nodes[index]
    IN  [leaf_sibling_hash |-> leaf_sibling_hash,
         auth_path |-> Reverse(SiblingsUp(t, parent(leaf_index_in_tree))),
         leaf_index |-> index]

\* A selection that always puts the computed node on the left.
SelectLeftRightIgnoringIndex(index, computed, sibling_hash) == <<computed, sibling_hash>>

\* select_left_right_child: an even index is a left child.
SelectLeftRight(index, computed, sibling_hash) ==
    IF index % 2 = 0 THEN <<computed, sibling_hash>> ELSE <<sibling_hash, computed>>

\* The loop of Path::verify over the levels above the leaf level, from the
\* last element of auth_path (bottom) to the first (below the root).
RECURSIVE ClimbPath(_, _, _, _)
ClimbPath(auth_path, level, index, curr) ==
    IF level = 0 THEN curr
    ELSE LET lr == SelectLeftRight(index, curr, auth_path[level])
         IN  ClimbPath(auth_path, level - 1, index \div 2, TwoToOneCompress(lr[1], lr[2]))

\* The root Path::verify recomputes from the claimed leaf.
PathComputeRoot(p, leaf) ==
    LET claimed_leaf_hash == LeafHash(leaf)
        lr == SelectLeftRight(p.leaf_index, claimed_leaf_hash, p.leaf_sibling_hash)
        bottom == TwoToOneEvaluate(LeafInnerDigestConverter(lr[1]),
                                   LeafInnerDigestConverter(lr[2]))
    IN  ClimbPath(p.auth_path, Len(p.auth_path), p.leaf_index \div 2, bottom)

\* A verification that never compares the recomputed root.
PathVerifyNoComparison(p, root_hash, leaf) == PathComputeRoot(p, leaf) = PathComputeRoot(p, leaf)

\* Path::verify
PathVerify(p, root_hash, leaf) == PathComputeRoot(p, leaf) = root_hash

\* ------------------------------------------------------------------------
\* In-circuit hash, digest conversion and path (src/src/hash.rs,
\* src/src/merkle.rs: LeafHashGadget, TwoToOneHashGadget, MerkleConfigGadget,
\* SimplePathVar)
\* ------------------------------------------------------------------------

\* pedersen CRHGadget::evaluate: pads with constant zero bytes like the
\* native hash and computes the same point.
LeafHashGadget(input) == <<0, StripZeros(input)>>

\* AffineVar::to_bytes: the bytes of x followed by the bytes of y.
PointVarToBytes(d) == << <<1, d>> >> \o << <<2, d>> >>

\* BytesVarDigestConverter::convert
LeafInnerConverter(d) == PointVarToBytes(d)

\* pedersen TwoToOneCRHGadget::evaluate on left || right.
TwoToOneHashGadgetEvaluate(l, r) == <<1, StripZeros(l \o r)>>

\* pedersen TwoToOneCRHGadget::compress: evaluate on the bytes of both points.
TwoToOneHashGadgetCompress(l, r) ==
    TwoToOneHashGadgetEvaluate(PointVarToBytes(l), PointVarToBytes(r))

\* Path::position_list without its last element: one bit per auth_path
\* element, in the order of auth_path (root downwards).
PositionBits(p) ==
    LET n == Len(p.auth_path)
    IN  [j \in 1..n |-> (p.leaf_index \div Pow2(n + 1 - j)) % 2]

\* SimplePathVar::new_witness
PathVarNew(p) ==
    [leaf_sibling |-> p.leaf_sibling_hash,
     leaf_is_right_child |-> p.leaf_index % 2,
     path |-> PositionBits(p),
     auth_path |-> p.auth_path]

\* Boolean::select: the first value when the bit is set.
Select(bit, a, b) == IF bit = 1 THEN a ELSE b

RECURSIVE ClimbPathVar(_, _, _)
ClimbPathVar(pv, level, curr) ==
    IF level = 0 THEN curr
    ELSE LET left_hash == Select(pv.path[level], pv.auth_path[level], curr)
             right_hash == Select(pv.path[level], curr, pv.auth_path[level])
         IN  ClimbPathVar(pv, level - 1, TwoToOneHashGadgetCompress(left_hash, right_hash))

\* A root recomputation that pairs the sibling with the leaf digest in the
\* fixed order leaf, sibling at the leaf level.
CalculateRootFixedLeafOrder(pv, leaf) ==
    LET claimed_leaf_hash == LeafHashGadget(leaf)
        bottom == TwoToOneHashGadgetEvaluate(LeafInnerConverter(claimed_leaf_hash),
                                             LeafInnerConverter(pv.leaf_sibling))
    IN  ClimbPathVar(pv, Len(pv.auth_path), bottom)

\* PathVar::calculate_root
CalculateRoot(pv, leaf) ==
    LET claimed_leaf_hash == LeafHashGadget(leaf)
        left_hash == Select(pv.leaf_is_right_child, pv.leaf_sibling, claimed_leaf_hash)
        right_hash == Select(pv.leaf_is_right_child, claimed_leaf_hash, pv.leaf_sibling)
        bottom == TwoToOneHashGadgetEvaluate(LeafInnerConverter(left_hash),
                                             LeafInnerConverter(right_hash))
    IN  ClimbPathVar(pv, Len(pv.auth_path), bottom)

\* ------------------------------------------------------------------------
\* Card commitment (src/src/card.rs)
\* ------------------------------------------------------------------------

\* Bytes of a Leaf.
LeafBytes == 64

\* impl CanonicalSerialize for Card (derived): purchase_price, serial_num.
CardSerialize(card) == FSerialize(card.purchase_price) \o FSerialize(card.serial_num)

\* A commitment that leaves the randomness out of the hashed buffer.
CardCommitWithoutRand(card, com_rand) ==
    LeafInnerDigestConverter(LeafHash(CardSerialize(card)))

\* Card::commit: Hash(com_rand || purchase_price || serial_num), converted.
CardCommit(card, com_rand) ==
    LET buf == FSerialize(com_rand) \o CardSerialize(card)
        claimed_leaf_hash == LeafHash(buf)
    IN  LeafInnerDigestConverter(claimed_leaf_hash)

\* impl ToBytesGadget for CardVar: amount then serial_num.
CardVarToBytes(card_var) == FVToBytes(card_var.amount) \o FVToBytes(card_var.serial_num)

\* A commitment gadget that hashes the card before the randomness.
CardVarCommitCardFirst(card_var, com_rand) ==
    LET com_rand_bytes == FVToBytes(com_rand)
        card_bytes == CardVarToBytes(card_var)
        hash == LeafHashGadget(card_bytes \o com_rand_bytes)
    IN  PointVarToBytes(hash)

\* CardVar::commit
CardVarCommit(card_var, com_rand) ==
    LET com_rand_bytes == FVToBytes(com_rand)
        card_bytes == CardVarToBytes(card_var)
        hash == LeafHashGadget(com_rand_bytes \o card_bytes)
    IN  PointVarToBytes(hash)

\* ------------------------------------------------------------------------
\* Test fixture (src/src/util.rs)
\* ------------------------------------------------------------------------

\* Cards all_cards() creates.
NumCards == 16

\* all_cards(): the i-th (card, nonce) pair drawn from the deterministic
\* test_rng; the field elements are stand-ins for the draws, pairwise
\* distinct and wider than one byte.
all_cards ==
    [i \in 0..(NumCards - 1) |->
        [card |-> [purchase_price |-> 1000 + i, serial_num |-> 2000 + i],
         nonce |-> 3000 + i]]

\* A lookup that is off by one card.
get_test_card_next(i) == all_cards[(i + 1) % NumCards]

\* get_test_card
get_test_card(i) == all_cards[i]

\* get_test_leaf
get_test_leaf(i) == CardCommit(all_cards[i].card, all_cards[i].nonce)

\* gen_test_tree
gen_test_tree == SimpleMerkleTreeNew([k \in 1..NumCards |-> get_test_leaf(k - 1)])

\* ------------------------------------------------------------------------
\* PossessionShowPriceCircuit (src/src/constraints_showprice.rs)
\* ------------------------------------------------------------------------

NoCircuit ==
    [root |-> NoDigest, leaf |-> <<>>, card_serial_num |-> 0,
     card_purchase_price |-> 0, card_com_rand |-> 0, auth_path |-> NoPath]

NoConstraintSystem ==
    [status |-> "none", allocated |-> <<>>, computed_card_com |-> <<>>, constraints |-> <<>>]

\* Variables an allocated value takes: a field element is one variable, a
\* curve point its two coordinates, a byte its eight bits, a position of the
\* path one bit.
PointVariables == 2
ByteVariables == 8

\* PathVar::new_variable: the position bits (one per auth_path element and
\* one for the leaf), the leaf sibling and the auth_path digests.
PathVariables(p) ==
    Len(p.auth_path) + 1 + PointVariables + PointVariables * Len(p.auth_path)

\* Allocations that skip the serial number when it is zero.
ShowPriceAllocationsByValue(c) ==
    << <<"constant", "leaf_crh_params", 0>>, <<"constant", "two_to_one_crh_params", 0>>,
       <<"input", "root", PointVariables>>,
       <<"input", "card serial", IF c.card_serial_num = 0 THEN 0 ELSE 1>>,
       <<"witness", "card com", ByteVariables * ByteLen(c.leaf)>>,
       <<"input", "purchase price", 1>>, <<"witness", "card com_rand", 1>>,
       <<"witness", "merkle path", PathVariables(c.auth_path)>> >>

\* Allocations with the purchase price as a private witness, as in the
\* circuit that does not show the price.
ShowPriceAllocationsPriceWitness(c) ==
    << <<"constant", "leaf_crh_params", 0>>, <<"constant", "two_to_one_crh_params", 0>>,
       <<"input", "root", PointVariables>>, <<"input", "card serial", 1>>,
       <<"witness", "card com", ByteVariables * ByteLen(c.leaf)>>,
       <<"witness", "purchase price", 1>>, <<"witness", "card com_rand", 1>>,
       <<"witness", "merkle path", PathVariables(c.auth_path)>> >>

\* Allocations of generate_constraints, in program order: the mode, the
\* namespace and the number of variables. new_witness_vec allocates every
\* byte of self.leaf, the path allocation every element of the path.
ShowPriceAllocations(c) ==
    << <<"constant", "leaf_crh_params", 0>>, <<"constant", "two_to_one_crh_params", 0>>,
       <<"input", "root", PointVariables>>, <<"input", "card serial", 1>>,
       <<"witness", "card com", ByteVariables * ByteLen(c.leaf)>>,
       <<"input", "purchase price", 1>>, <<"witness", "card com_rand", 1>>,
       <<"witness", "merkle path", PathVariables(c.auth_path)>> >>

\* generate_constraints without CHECK #1, the card opening.
generate_constraints_without_opening(c) ==
    LET card_var == [amount |-> c.card_purchase_price, serial_num |-> c.card_serial_num]
        computed_card_com_var == CardVarCommit(card_var, c.card_com_rand)
        computed_root_var == CalculateRoot(PathVarNew(c.auth_path), c.leaf)
    IN  [status |-> "Ok", allocated |-> ShowPriceAllocations(c),
         computed_card_com |-> computed_card_com_var,
         constraints |-> << <<computed_root_var, c.root>> >>]

\* generate_constraints without CHECK #2, the membership test.
generate_constraints_without_membership(c) ==
    LET card_var == [amount |-> c.card_purchase_price, serial_num |-> c.card_serial_num]
        computed_card_com_var == CardVarCommit(card_var, c.card_com_rand)
    IN  IF ByteLen(computed_card_com_var) # ByteLen(c.leaf)
        THEN [status |-> "panic", allocated |-> ShowPriceAllocations(c),
              computed_card_com |-> computed_card_com_var, constraints |-> <<>>]
        ELSE [status |-> "Ok", allocated |-> ShowPriceAllocations(c),
              computed_card_com |-> computed_card_com_var,
              constraints |-> << <<computed_card_com_var, c.leaf>> >>]

\* generate_constraints that commits to a privately witnessed serial number
\* (the one of the card at the path's index) and never uses the public one.
generate_constraints_private_serial(c) ==
    LET card_var == [amount |-> c.card_purchase_price,
                     serial_num |-> get_test_card(c.auth_path.leaf_index).card.serial_num]
        computed_card_com_var == CardVarCommit(card_var, c.card_com_rand)
    IN  IF ByteLen(computed_card_com_var) # ByteLen(c.leaf)
        THEN [status |-> "panic", allocated |-> ShowPriceAllocations(c),
              computed_card_com |-> computed_card_com_var, constraints |-> <<>>]
        ELSE LET computed_root_var == CalculateRoot(PathVarNew(c.auth_path), c.leaf)
             IN  [status |-> "Ok", allocated |-> ShowPriceAllocations(c),
                  computed_card_com |-> computed_card_com_var,
                  constraints |-> << <<computed_card_com_var, c.leaf>>,
                                     <<computed_root_var, c.root>> >>]

\* generate_constraints with a second leaf variable: the opening is checked
\* on self.leaf, the membership on the leaf the tree holds at the path's
\* index.
generate_constraints_two_leaves(c) ==
    LET card_var == [amount |-> c.card_purchase_price, serial_num |-> c.card_serial_num]
        computed_card_com_var == CardVarCommit(card_var, c.card_com_rand)
        leaf_var == get_test_leaf(c.auth_path.leaf_index)
    IN  IF ByteLen(computed_card_com_var) # ByteLen(c.leaf)
        THEN [status |-> "panic", allocated |-> ShowPriceAllocations(c),
              computed_card_com |-> computed_card_com_var, constraints |-> <<>>]
        ELSE LET computed_root_var == CalculateRoot(PathVarNew(c.auth_path), leaf_var)
             IN  [status |-> "Ok", allocated |-> ShowPriceAllocations(c),
                  computed_card_com |-> computed_card_com_var,
                  constraints |-> << <<computed_card_com_var, c.leaf>>,
                                     <<computed_root_var, c.root>> >>]

\* PossessionShowPriceCircuit::generate_constraints. enforce_equal on two
\* byte vectors asserts that their lengths agree and panics otherwise; each
\* enforced equality is recorded as the pair of the values assigned to its
\* two sides.
generate_constraints(c) ==
    LET card_var == [amount |-> c.card_purchase_price, serial_num |-> c.card_serial_num]
        computed_card_com_var == CardVarCommit(card_var, c.card_com_rand)
    IN  IF ByteLen(computed_card_com_var) # ByteLen(c.leaf)
        THEN [status |-> "panic", allocated |-> ShowPriceAllocations(c),
              computed_card_com |-> computed_card_com_var, constraints |-> <<>>]
        ELSE LET computed_root_var == CalculateRoot(PathVarNew(c.auth_path), c.leaf)
             IN  [status |-> "Ok", allocated |-> ShowPriceAllocations(c),
                  computed_card_com |-> computed_card_com_var,
                  constraints |-> << <<computed_card_com_var, c.leaf>>,
                                     <<computed_root_var, c.root>> >>]

\* ConstraintSystem::is_satisfied: every enforced equality holds.
is_satisfied(sys) ==
    \A k \in 1..Len(sys.constraints) : sys.constraints[k][1] = sys.constraints[k][2]

\* test::setup: the genuine circuit for the card at index i of the test tree.
setup(i) ==
    [root |-> Root(gen_test_tree),
     leaf |-> get_test_leaf(i),
     card_serial_num |-> get_test_card(i).card.serial_num,
     card_purchase_price |-> get_test_card(i).card.purchase_price,
     card_com_rand |-> get_test_card(i).nonce,
     auth_path |-> GenerateProof(gen_test_tree, i)]

\* ------------------------------------------------------------------------
\* Note commitment and MerkleTreeVerification (src/arkworks/src/common.rs,
\* src/arkworks/src/constraints.rs, src/src/note.rs)
\* ------------------------------------------------------------------------

\* impl CanonicalSerialize for Note (derived): amount, nullifier.
NoteSerialize(note) == FSerialize(note.amount) \o FSerialize(note.nullifier)

\* Note::commit: Hash(nonce || amount || nullifier), converted.
NoteCommit(note, nonce) ==
    LET buf == FSerialize(nonce) \o NoteSerialize(note)
        claimed_leaf_hash == LeafHash(buf)
    IN  LeafInnerDigestConverter(claimed_leaf_hash)

\* impl ToBytesGadget for NoteVar: amount then nullifier.
NoteVarToBytes(note_var) == FVToBytes(note_var.amount) \o FVToBytes(note_var.nullifier)

NoMerkleTreeVerification ==
    [root |-> NoDigest, leaf |-> <<>>, note_opening |-> [amount |-> 0, nullifier |-> 0],
     auth_path |-> [some |-> FALSE, path |-> NoPath]]

\* Allocations of MerkleTreeVerification::generate_constraints up to the
\* first enforced equality, and the path allocated after it.
MtvAllocations ==
    << <<"input", "root_var">>, <<"constant", "leaf_crh_params">>,
       <<"constant", "two_to_one_crh_params">>, <<"witness", "note">>,
       <<"input", "note com">> >>

\* MerkleTreeVerification::generate_constraints: the note hash is enforced
\* equal to the leaf; the path is allocated (unwrap panics on None) and no
\* constraint relates it, the leaf and the root.
mtv_generate_constraints(c) ==
    LET note_bytes == NoteVarToBytes(c.note_opening)
        hash == LeafHashGadget(note_bytes)
        note_hash == PointVarToBytes(hash)
    IN  IF ByteLen(c.leaf) # ByteLen(note_hash) \/ ~c.auth_path.some
        THEN [status |-> "panic", allocated |-> MtvAllocations,
              computed_card_com |-> note_hash, constraints |-> <<>>]
        ELSE [status |-> "Ok",
              allocated |-> Append(MtvAllocations, <<"witness", "path_var">>),
              computed_card_com |-> note_hash,
              constraints |-> << <<c.leaf, note_hash>> >>]

\* ------------------------------------------------------------------------
\* Native scenario: build a tree, generate a path, hand the verifier a leaf,
\* a root and the path, possibly after changing one of them, and verify.
\* ------------------------------------------------------------------------

VARIABLES pc, leaves, tree, idx, path, claimed_leaf, claimed_root, result

\* The PossessionShowPriceCircuit scenario: the circuit instance, the index
\* it was set up for, the number of fields replaced since, and the
\* constraint system generate_constraints filled.
VARIABLES sp_pc, circuit, our_idx, mauls, cs

\* The MerkleTreeVerification scenario: the circuit instance, the root of the
\* tree its path was generated from, and the constraint system.
VARIABLES mtv_pc, mtv, correct_root, mtv_cs

\* The commitment scenario: which commit is called (Card or Note), the two
\* (record, nonce) pairs, and the leaves returned for the first pair, the
\* second pair and a repeated call on the first pair.
VARIABLES com_pc, com_kind, com_first, com_second, leaf_first, leaf_second, leaf_again

\* The prove and verify binaries: the card the prover holds, the root its
\* proof package is made for and the public inputs of that package; the root
\* and serial the verifier is given and the public inputs it assembles.
VARIABLES bin_pc, bin_card, bin_root, prover_inputs, given_root, given_serial,
          verifier_inputs

\* Persistence: the file at one path, the value of the last write_to_file,
\* whether the content was changed since that write, the number of writes,
\* and what read_from_file did.
VARIABLES file_pc, file, last_written, tampered, writes, read_result

\* The fixture as two binaries use it: the trees two calls of gen_test_tree
\* return, and the index, leaf and card of a get_test_leaf and a
\* get_test_card call.
VARIABLES fx_tree_a, fx_tree_b, fx_leaf_idx, fx_leaf, fx_card_idx, fx_card

\* The verify binary: the command line and files it is run on, and what the
\* run printed and how it ended.
VARIABLES vf_pc, vf_env, vf_out

\* The prove_showprice binary: the command line and files it is run on, the
\* three output files, the steps it has completed, and its panic if any.
VARIABLES ps_pc, ps_env, ps_files, ps_log, ps_panic

nativeVars == <<pc, leaves, tree, idx, path, claimed_leaf, claimed_root, result>>
showpriceVars == <<sp_pc, circuit, our_idx, mauls, cs>>
mtvVars == <<mtv_pc, mtv, correct_root, mtv_cs>>

commitVars == <<com_pc, com_kind, com_first, com_second, leaf_first, leaf_second, leaf_again>>

binVars == <<bin_pc, bin_card, bin_root, prover_inputs, given_root, given_serial,
             verifier_inputs>>

fileVars == <<file_pc, file, last_written, tampered, writes, read_result>>

fixtureVars == <<fx_tree_a, fx_tree_b, fx_leaf_idx, fx_leaf, fx_card_idx, fx_card>>

verifyVars == <<vf_pc, vf_env, vf_out>>

proveVars == <<ps_pc, ps_env, ps_files, ps_log, ps_panic>>

vars == <<nativeVars, showpriceVars, mtvVars, commitVars, binVars, fileVars, fixtureVars, verifyVars, proveVars>>

\* What the actions of one scenario leave alone.
outsideNative == <<showpriceVars, mtvVars, commitVars, binVars, fileVars, fixtureVars, verifyVars, proveVars>>
outsideShowPrice == <<nativeVars, mtvVars, commitVars, binVars, fileVars, fixtureVars, verifyVars, proveVars>>
outsideMtv == <<nativeVars, showpriceVars, commitVars, binVars, fileVars, fixtureVars, verifyVars, proveVars>>
outsideCommit == <<nativeVars, showpriceVars, mtvVars, binVars, fileVars, fixtureVars, verifyVars, proveVars>>
outsideBin == <<nativeVars, showpriceVars, mtvVars, commitVars, fileVars, fixtureVars, verifyVars, proveVars>>
outsideFile == <<nativeVars, showpriceVars, mtvVars, commitVars, binVars, fixtureVars, verifyVars, proveVars>>
outsideFixture == <<nativeVars, showpriceVars, mtvVars, commitVars, binVars, fileVars, verifyVars, proveVars>>
outsideVerify == <<nativeVars, showpriceVars, mtvVars, commitVars, binVars, fileVars, fixtureVars, proveVars>>
outsideProve == <<nativeVars, showpriceVars, mtvVars, commitVars, binVars, fileVars, fixtureVars, verifyVars>>

\* ------------------------------------------------------------------------
\* Persistence (src/src/util.rs, src/arkworks/src/common.rs): write_to_file
\* and read_from_file over compressed canonical serialization.
\*
\* A persisted value is <<0, v>>, the field element v, or <<1, p>>, a curve
\* point. A point candidate p is <<0, k>>, a point of the prime-order
\* subgroup, <<1, k>>, a point of the curve outside that subgroup, or
\* <<2, k>>, an x coordinate no point of the curve has. File content is a
\* sequence of chunks: <<0, n>>, one byte, or <<3, <<p, lo, hi>>>>, bytes
\* lo..hi of the compressed encoding of p.
\* ------------------------------------------------------------------------

\* Bytes of a compressed G1 point of a Proof<E>.
PointBytes == 48

FieldValue(v) == <<0, v>>
PointValue(p) == <<1, p>>
NoValue == <<2, 0>>

TypeOf(x) == IF x[1] = 0 THEN "F" ELSE "G"

InSubgroup(p) == p[1] = 0
OnCurve(p) == p[1] \in {0, 1}

PointChunk(p, lo, hi) == <<3, <<p, lo, hi>>>>

ChunkLen(c) == IF c[1] = 0 THEN 1 ELSE c[2][3] - c[2][2] + 1

RECURSIVE FileLen(_)
FileLen(content) ==
    IF content = <<>> THEN 0 ELSE ChunkLen(Head(content)) + FileLen(Tail(content))

\* The content without its first n bytes.
RECURSIVE DropBytes(_, _)
DropBytes(content, n) ==
    IF n = 0 \/ content = <<>> THEN content
    ELSE LET c == Head(content)
         IN  IF ChunkLen(c) <= n THEN DropBytes(Tail(content), n - ChunkLen(c))
             ELSE <<PointChunk(c[2][1], c[2][2] + n, c[2][3])>> \o Tail(content)

\* The first n bytes of the content.
RECURSIVE TakeBytes(_, _)
TakeBytes(content, n) ==
    IF n = 0 \/ content = <<>> THEN <<>>
    ELSE LET c == Head(content)
         IN  IF ChunkLen(c) <= n
             THEN <<c>> \o TakeBytes(Tail(content), n - ChunkLen(c))
             ELSE <<PointChunk(c[2][1], c[2][2], c[2][2] + n - 1)>>

\* The modulus of F (the scalar field of BLS12-381), most significant byte
\* first.
FModulusBytes ==
    <<115, 237, 167, 83, 41, 157, 125, 72, 51, 57, 216, 8, 9, 161, 216, 5,
      83, 189, 164, 2, 255, 254, 91, 254, 255, 255, 255, 255, 0, 0, 0, 1>>

\* A little-endian byte string of FieldBytes bytes is below the modulus.
BelowModulus(bs) ==
    \E k \in 1..FieldBytes :
        /\ bs[FieldBytes + 1 - k][2] < FModulusBytes[k]
        /\ \A j \in 1..(k - 1) : bs[FieldBytes + 1 - j][2] = FModulusBytes[j]

\* The integer a little-endian byte string stands for.
RECURSIVE FromBytesLE(_)
FromBytesLE(bs) == IF bs = <<>> THEN 0 ELSE Head(bs)[2] + 256 * FromBytesLE(Tail(bs))

\* x.serialize_compressed(&mut buf)
serialize_compressed(x) ==
    IF x[1] = 0 THEN FSerialize(x[2]) ELSE <<PointChunk(x[2], 1, PointBytes)>>

\* Bytes deserialization of a value of type ty consumes.
SerializedLen(ty) == IF ty = "F" THEN FieldBytes ELSE PointBytes

\* The leading bytes of the content are of the kind type ty is read from:
\* plain bytes for a field element, one whole point encoding for a point.
Decodable(ty, content) ==
    IF FileLen(content) < SerializedLen(ty) THEN TRUE
    ELSE IF ty = "F" THEN \A i \in 1..FieldBytes : content[i][1] = 0
    ELSE content[1][1] = 3 /\ ChunkLen(content[1]) = PointBytes

\* S::deserialize_compressed (validate) and S::deserialize_compressed_unchecked
\* on a byte slice: the value is read from the front of the slice, a short
\* slice is an error, bytes after the value are left unread. A field element
\* must be below the modulus; a point must be on the curve and, when
\* validated, in the subgroup.
deserialize_compressed(ty, validate, content) ==
    IF FileLen(content) < SerializedLen(ty) THEN [status |-> "Err", value |-> NoValue]
    ELSE IF ty = "F"
    THEN LET bs == SubSeq(content, 1, FieldBytes)
         IN  IF BelowModulus(bs) THEN [status |-> "Ok", value |-> FieldValue(FromBytesLE(bs))]
             ELSE [status |-> "Err", value |-> NoValue]
    ELSE LET p == content[1][2][1]
         IN  IF OnCurve(p) /\ (validate => InSubgroup(p))
             THEN [status |-> "Ok", value |-> PointValue(p)]
             ELSE [status |-> "Err", value |-> NoValue]

NoFile == [exists |-> FALSE, content |-> <<>>]
NoRead == [status |-> "none", value |-> NoValue, ty |-> "none", reader |-> "none"]

\* A write that opens the file for appending.
write_to_file_appending(f, data) ==
    [exists |-> TRUE, content |-> f.content \o serialize_compressed(data)]

\* write_to_file: the file is opened with write and create, neither truncate
\* nor append, and the buffer is written from offset 0 in one write call
\* that takes the whole buffer; bytes of the old content past the buffer
\* stay.
write_to_file(f, data) ==
    LET buf == serialize_compressed(data)
    IN  [exists |-> TRUE, content |-> buf \o DropBytes(f.content, FileLen(buf))]

\* read_from_file of src/src/util.rs (reader "util", unchecked) and of
\* src/arkworks/src/common.rs (reader "common", validated): a file that
\* cannot be opened and a deserialization error both panic.
read_from_file(reader, ty, f) ==
    IF ~f.exists THEN [status |-> "panic", value |-> NoValue, ty |-> ty, reader |-> reader]
    ELSE LET r == deserialize_compressed(ty, reader = "common", f.content)
         IN  IF r.status = "Err"
             THEN [status |-> "panic", value |-> NoValue, ty |-> ty, reader |-> reader]
             ELSE [status |-> "returned", value |-> r.value, ty |-> ty, reader |-> reader]

\* A run of the verify binary that has not happened: no command line, no
\* panic, nothing printed.
NoPanic == <<"none", "">>

NoEnv ==
    [argc |-> 0, root_arg |-> "none", given_merkle_root |-> NoDigest,
     vk_file |-> [kind |-> "missing", inputs |-> 0], proof_file |-> "missing",
     serial_file |-> NoFile, accepts |-> FALSE]

NoOutcome == [printed |-> <<>>, panic |-> NoPanic, verify_proof |-> "not called"]

\* A run of the prove_showprice binary that has not happened, and its three
\* output files before they are written.
NoProveEnv ==
    [argc |-> 0, root_arg |-> "none", given_merkle_root |-> NoDigest,
     params_file |-> "missing", pk_file |-> "missing",
     vk_file |-> [kind |-> "missing", inputs |-> 0, paired |-> FALSE],
     unwritable |-> "none"]

OutputFiles == {"proof", "serial", "price"}
NoOutputFiles == [n \in OutputFiles |-> NoFile]

\* No fixture index chosen yet, and no card fetched yet.
NoIndex == NumCards
NoCardAndNonce == [card |-> [purchase_price |-> 0, serial_num |-> 0], nonce |-> 0]

\* A (record, nonce) pair; amount is purchase_price of a Card and amount of a
\* Note, ident is serial_num of a Card and nullifier of a Note.
NoPair == [amount |-> 0, ident |-> 0, nonce |-> 0]

RECURSIVE SeqsOf(_, _)
SeqsOf(S, n) ==
    IF n = 0 THEN {<<>>}
    ELSE {Append(s, x) : s \in SeqsOf(S, n - 1), x \in S}

LeafLists == UNION {SeqsOf({Literal(v) : v \in LeafValues}, n) : n \in 1..MaxLeaves}

Init ==
    /\ pc = "start"
    /\ leaves = <<>>
    /\ tree = NoTree
    /\ idx = 0
    /\ path = NoPath
    /\ claimed_leaf = <<>>
    /\ claimed_root = NoDigest
    /\ result = "none"
    /\ sp_pc = "start"
    /\ circuit = NoCircuit
    /\ our_idx = 0
    /\ mauls = 0
    /\ cs = NoConstraintSystem
    /\ mtv_pc = "start"
    /\ mtv = NoMerkleTreeVerification
    /\ correct_root = NoDigest
    /\ mtv_cs = NoConstraintSystem
    /\ com_pc = "start"
    /\ com_kind = "none"
    /\ com_first = NoPair
    /\ com_second = NoPair
    /\ leaf_first = <<>>
    /\ leaf_second = <<>>
    /\ leaf_again = <<>>
    /\ bin_pc = "start"
    /\ bin_card = NoPair
    /\ bin_root = NoDigest
    /\ prover_inputs = <<>>
    /\ given_root = NoDigest
    /\ given_serial = 0
    /\ verifier_inputs = <<>>
    /\ file_pc = "start"
    /\ file = NoFile
    /\ last_written = NoValue
    /\ tampered = FALSE
    /\ writes = 0
    /\ read_result = NoRead
    /\ fx_tree_a = NoTree
    /\ fx_tree_b = NoTree
    /\ fx_leaf_idx = NoIndex
    /\ fx_leaf = <<>>
    /\ fx_card_idx = NoIndex
    /\ fx_card = NoCardAndNonce
    /\ vf_pc = "start"
    /\ vf_env = NoEnv
    /\ vf_out = NoOutcome
    /\ ps_pc = "start"
    /\ ps_env = NoProveEnv
    /\ ps_files = NoOutputFiles
    /\ ps_log = <<>>
    /\ ps_panic = NoPanic

\* SimpleMerkleTree::new(&leaf_crh_params, &two_to_one_crh_params, leaves)
New ==
    /\ pc = "start"
    /\ \E ls \in LeafLists :
        /\ leaves' = ls
        /\ IF CanBuild(ls)
           THEN tree' = SimpleMerkleTreeNew(ls) /\ pc' = "built"
           ELSE tree' = NoTree /\ pc' = "new_panicked"
    /\ UNCHANGED <<idx, path, claimed_leaf, claimed_root, result>>
    /\ UNCHANGED outsideNative

\* tree.generate_proof(i); the verifier is then handed leaves[i] and the root.
Prove ==
    /\ pc = "built"
    /\ \E i \in 0..(Len(leaves) + 1) :
        /\ idx' = i
        /\ IF CanGenerateProof(tree, i)
           THEN /\ path' = GenerateProof(tree, i)
                /\ claimed_leaf' = leaves[i + 1]
                /\ claimed_root' = Root(tree)
                /\ pc' = "proved"
           ELSE /\ path' = NoPath
                /\ UNCHANGED <<claimed_leaf, claimed_root>>
                /\ pc' = "proof_panicked"
    /\ UNCHANGED <<leaves, tree, result>>
    /\ UNCHANGED outsideNative

ReplaceAt(s, i, x) == [s EXCEPT ![i] = x]

\* Roots offered in place of the tree's own: the roots of the trees that
\* differ from it in one leaf, and a random point.
RootCandidates ==
    {Root(SimpleMerkleTreeNew(ReplaceAt(leaves, k, Literal(v)))) :
        k \in 1..Len(leaves), v \in LeafValues} \cup {RandPoint(1)}

\* The verifier is given another root.
SubstituteRoot ==
    /\ pc = "proved"
    /\ \E r \in RootCandidates :
        /\ r # claimed_root
        /\ claimed_root' = r
    /\ pc' = "mauled"
    /\ UNCHANGED <<leaves, tree, idx, path, claimed_leaf, result>>
    /\ UNCHANGED outsideNative

\* The verifier is given the leaf with one byte replaced.
SubstituteLeaf ==
    /\ pc = "proved"
    /\ \E k \in 1..Len(claimed_leaf), b \in ByteValues :
        /\ Lit(b) # claimed_leaf[k]
        /\ claimed_leaf' = ReplaceAt(claimed_leaf, k, Lit(b))
    /\ pc' = "mauled"
    /\ UNCHANGED <<leaves, tree, idx, path, claimed_root, result>>
    /\ UNCHANGED outsideNative

\* Level 0 of a path is leaf_sibling_hash, level k > 0 is the k-th sibling
\* above it, auth_path[Len(auth_path) + 1 - k].
PathLevels(p) == 0..Len(p.auth_path)

SiblingAt(p, level) ==
    IF level = 0 THEN p.leaf_sibling_hash ELSE p.auth_path[Len(p.auth_path) + 1 - level]

WithSibling(p, level, d) ==
    IF level = 0 THEN [p EXCEPT !.leaf_sibling_hash = d]
    ELSE [p EXCEPT !.auth_path[Len(p.auth_path) + 1 - level] = d]

\* Digests offered in place of a sibling: the digest of the claimed leaf, the
\* other siblings of the path, the root and a random point.
DigestCandidates ==
    {SiblingAt(path, l) : l \in PathLevels(path)}
        \cup {LeafHash(claimed_leaf), Root(tree), RandPoint(1)}

\* The path is given another sibling digest at one level.
ReplaceSibling ==
    /\ pc = "proved"
    /\ \E level \in PathLevels(path), d \in DigestCandidates :
        /\ d # SiblingAt(path, level)
        /\ path' = WithSibling(path, level, d)
    /\ pc' = "mauled"
    /\ UNCHANGED <<leaves, tree, idx, claimed_leaf, claimed_root, result>>
    /\ UNCHANGED outsideNative

\* Bit `level` of the index, flipped.
FlipBit(index, level) ==
    IF (index \div Pow2(level)) % 2 = 0 THEN index + Pow2(level) ELSE index - Pow2(level)

\* The left/right order of one level of the path is swapped.
SwapOrder ==
    /\ pc = "proved"
    /\ \E level \in PathLevels(path) :
        path' = [path EXCEPT !.leaf_index = FlipBit(path.leaf_index, level)]
    /\ pc' = "mauled"
    /\ UNCHANGED <<leaves, tree, idx, claimed_leaf, claimed_root, result>>
    /\ UNCHANGED outsideNative

\* path.verify(&leaf_crh_params, &two_to_one_crh_params, &root, claimed_leaf)
Verify ==
    /\ pc \in {"proved", "mauled"}
    /\ LeafHashFits(claimed_leaf)
    /\ result' = IF PathVerify(path, claimed_root, claimed_leaf) THEN "true" ELSE "false"
    /\ pc' = "verified"
    /\ UNCHANGED <<leaves, tree, idx, path, claimed_leaf, claimed_root>>
    /\ UNCHANGED outsideNative

Next ==
    \/ New
    \/ Prove
    \/ SubstituteRoot
    \/ SubstituteLeaf
    \/ ReplaceSibling
    \/ SwapOrder
    \/ Verify

Spec == Init /\ [][Next]_vars

\* ------------------------------------------------------------------------
\* Circuit scenario: set up a genuine PossessionShowPriceCircuit, replace
\* some of its fields, run generate_constraints on a fresh constraint system.
\* ------------------------------------------------------------------------

\* Fields replaced before the circuit is synthesized, at most.
MaxMauls == 2

\* Indices the circuit is set up for: gen_params_showprice uses 0, the tests
\* and prove_showprice use 7.
OurIdxs == {0, 7}

\* Field elements offered in place of a field of the circuit.
MaulFieldValues == {0, 1, 258, 66051}

\* The root of the test tree with its first leaf replaced by zero bytes.
SecondRoot ==
    Root(SimpleMerkleTreeNew(
        [k \in 1..NumCards |-> IF k = 1 THEN Zeros(LeafBytes) ELSE get_test_leaf(k - 1)]))

\* let circuit = setup(&mut rng)
Setup ==
    /\ sp_pc = "start"
    /\ \E i \in OurIdxs :
        /\ our_idx' = i
        /\ circuit' = setup(i)
    /\ sp_pc' = "ready"
    /\ UNCHANGED <<mauls, cs>>
    /\ UNCHANGED outsideShowPrice

CanMaul == sp_pc = "ready" /\ mauls < MaxMauls

\* bad_card_circuit.card_purchase_price = F::rand(&mut rng)
MaulPrice ==
    /\ CanMaul
    /\ \E v \in MaulFieldValues :
        /\ v # circuit.card_purchase_price
        /\ circuit' = [circuit EXCEPT !.card_purchase_price = v]
    /\ mauls' = mauls + 1
    /\ UNCHANGED <<sp_pc, our_idx, cs>>
    /\ UNCHANGED outsideShowPrice

MaulSerial ==
    /\ CanMaul
    /\ \E v \in MaulFieldValues :
        /\ v # circuit.card_serial_num
        /\ circuit' = [circuit EXCEPT !.card_serial_num = v]
    /\ mauls' = mauls + 1
    /\ UNCHANGED <<sp_pc, our_idx, cs>>
    /\ UNCHANGED outsideShowPrice

MaulComRand ==
    /\ CanMaul
    /\ \E v \in MaulFieldValues :
        /\ v # circuit.card_com_rand
        /\ circuit' = [circuit EXCEPT !.card_com_rand = v]
    /\ mauls' = mauls + 1
    /\ UNCHANGED <<sp_pc, our_idx, cs>>
    /\ UNCHANGED outsideShowPrice

\* bad_root_circuit.root = MerkleRoot::rand(&mut rng)
MaulRoot ==
    /\ CanMaul
    /\ \E r \in {RandPoint(1), SecondRoot} :
        /\ r # circuit.root
        /\ circuit' = [circuit EXCEPT !.root = r]
    /\ mauls' = mauls + 1
    /\ UNCHANGED <<sp_pc, our_idx, cs>>
    /\ UNCHANGED outsideShowPrice

\* Leaves offered in place of the claimed leaf: the zero leaf, a leaf one
\* byte short, another leaf of the tree, and the commitment the other fields
\* of the circuit open to.
LeafCandidates ==
    {Zeros(LeafBytes), Zeros(LeafBytes - 1), get_test_leaf((our_idx + 1) % NumCards),
     CardCommit([purchase_price |-> circuit.card_purchase_price,
                 serial_num |-> circuit.card_serial_num], circuit.card_com_rand)}

MaulLeaf ==
    /\ CanMaul
    /\ \E l \in LeafCandidates :
        /\ l # circuit.leaf
        /\ circuit' = [circuit EXCEPT !.leaf = l]
    /\ mauls' = mauls + 1
    /\ UNCHANGED <<sp_pc, our_idx, cs>>
    /\ UNCHANGED outsideShowPrice

\* The tree of the first half of the test leaves: its paths are one digest
\* shorter than those of the test tree.
SmallTree ==
    SimpleMerkleTreeNew([k \in 1..(NumCards \div 2) |-> get_test_leaf(k - 1)])

\* Paths offered in place of the path of the circuit: paths of the test tree
\* for other indices and a path of the smaller tree.
MaulAuthPath ==
    /\ CanMaul
    /\ \E p \in {GenerateProof(gen_test_tree, k) : k \in {0, 7, 8}}
                \cup {GenerateProof(SmallTree, 0)} :
        /\ p # circuit.auth_path
        /\ circuit' = [circuit EXCEPT !.auth_path = p]
    /\ mauls' = mauls + 1
    /\ UNCHANGED <<sp_pc, our_idx, cs>>
    /\ UNCHANGED outsideShowPrice

\* let cs = ConstraintSystem::new_ref();
\* circuit.generate_constraints(cs.clone())
GenerateConstraints ==
    /\ sp_pc = "ready"
    /\ cs' = generate_constraints(circuit)
    /\ sp_pc' = "synthesized"
    /\ UNCHANGED <<circuit, our_idx, mauls>>
    /\ UNCHANGED outsideShowPrice

NextShowPrice ==
    \/ Setup
    \/ MaulPrice
    \/ MaulSerial
    \/ MaulComRand
    \/ MaulRoot
    \/ MaulLeaf
    \/ MaulAuthPath
    \/ GenerateConstraints

SpecShowPrice == Init /\ [][NextShowPrice]_vars

\* ------------------------------------------------------------------------
\* Properties of the native tree and path
\* ------------------------------------------------------------------------

GenuinePath == GenerateProof(tree, idx)
GenuineLeaf == leaves[idx + 1]
Verified == pc = "verified"

\* The digest Path::verify holds at `level` while climbing path p from leaf:
\* the leaf digest at level 0, the recomputed inner node above it.
RECURSIVE CurrentAt(_, _, _)
CurrentAt(p, leaf, level) ==
    IF level = 0 THEN LeafHash(leaf)
    ELSE LET below == CurrentAt(p, leaf, level - 1)
             lr == SelectLeftRight(p.leaf_index \div Pow2(level - 1), below,
                                   SiblingAt(p, level - 1))
         IN  IF level = 1
             THEN TwoToOneEvaluate(LeafInnerDigestConverter(lr[1]),
                                   LeafInnerDigestConverter(lr[2]))
             ELSE TwoToOneCompress(lr[1], lr[2])

C3_RootSubstitution ==
    (Verified /\ path = GenuinePath /\ claimed_leaf = GenuineLeaf
        /\ claimed_root # Root(tree)) => result = "false"

C3_Witness ==
    /\ Verified /\ Len(leaves) = 8 /\ idx = 4
    /\ path = GenuinePath /\ claimed_leaf = GenuineLeaf
    /\ claimed_root = Root(SimpleMerkleTreeNew(
           ReplaceAt(leaves, 1, IF leaves[1] = Literal(<<49>>) THEN Literal(<<49, 48>>)
                                ELSE Literal(<<49>>))))
    /\ claimed_root # Root(tree)
    /\ result = "false"

\* The claimed leaf has the length of leaves[i] and differs from it in
\* exactly one byte.
DiffersInOneByte(a, b) ==
    /\ Len(a) = Len(b)
    /\ Cardinality({k \in 1..Len(a) : a[k] # b[k]}) = 1

\* C4: with the path generated for i and the tree's root, verifying a leaf
\* that differs from leaves[i] in a single byte returns false.
C4_LeafSubstitution ==
    (Verified /\ path = GenuinePath /\ claimed_root = Root(tree)
        /\ DiffersInOneByte(claimed_leaf, GenuineLeaf)) => result = "false"

\* The second byte of b"10" replaced by a zero byte: the replaced leaf pads
\* to the same hash input as b"1", the sibling.
C4_Witness ==
    /\ Verified /\ path = GenuinePath /\ claimed_root = Root(tree)
    /\ Len(leaves) = 8 /\ idx = 3
    /\ GenuineLeaf = Literal(<<49, 48>>)
    /\ claimed_leaf = Literal(<<49, 0>>)
    /\ leaves[3] = Literal(<<49>>)
    /\ result = "false"

\* The levels at which path p differs from path q in the sibling digest.
SiblingDiffs(p, q) ==
    {l \in PathLevels(q) : SiblingAt(p, l) # SiblingAt(q, l)}

\* C5: replacing the sibling digest of one level of the generated path by a
\* different digest, with leaf, index and root kept, makes verification
\* return false.
C5_PathMutation ==
    (Verified /\ claimed_leaf = GenuineLeaf /\ claimed_root = Root(tree)
        /\ path.leaf_index = idx
        /\ Len(path.auth_path) = Len(GenuinePath.auth_path)
        /\ Cardinality(SiblingDiffs(path, GenuinePath)) = 1) => result = "false"

C5_Witness ==
    /\ Verified /\ claimed_leaf = GenuineLeaf /\ claimed_root = Root(tree)
    /\ Len(leaves) = 8 /\ idx = 6 /\ path.leaf_index = idx
    /\ SiblingDiffs(path, GenuinePath) = {2}
    /\ SiblingAt(path, 2) = RandPoint(1)
    /\ result = "false"

\* Path p is the generated path with the order of exactly `level` swapped.
SwappedAt(p, level) ==
    /\ p.leaf_sibling_hash = GenuinePath.leaf_sibling_hash
    /\ p.auth_path = GenuinePath.auth_path
    /\ p.leaf_index = FlipBit(idx, level)

\* C6 as stated: swapping the left/right order of any single level makes
\* verification return false for every tree and index, equal children
\* included.
C6_SwapAlwaysFails ==
    (Verified /\ claimed_leaf = GenuineLeaf /\ claimed_root = Root(tree)
        /\ \E level \in PathLevels(GenuinePath) : SwappedAt(path, level))
    => result = "false"

\* C6 amended: swapping the order of a level makes verification return
\* false when the node and its sibling at that level have different digests,
\* and leaves the result true when they are equal.
C6_SwapFailsUnlessEqual ==
    (Verified /\ claimed_leaf = GenuineLeaf /\ claimed_root = Root(tree)) =>
        \A level \in PathLevels(GenuinePath) :
            SwappedAt(path, level)
            => (result = "false"
                   <=> CurrentAt(GenuinePath, GenuineLeaf, level)
                           # SiblingAt(GenuinePath, level))

C6_Witness ==
    /\ Verified /\ claimed_leaf = GenuineLeaf /\ claimed_root = Root(tree)
    /\ Len(leaves) = 8 /\ idx = 2
    /\ SwappedAt(path, 1)
    /\ CurrentAt(GenuinePath, GenuineLeaf, 1) # SiblingAt(GenuinePath, 1)
    /\ result = "false"

\* C12: a leaf list whose length is not a power of two makes the
\* construction fail and leaves no tree; a tree that was built has exactly
\* the leaves it was given, none dropped and none added.
C12_NonPowerOfTwoFails ==
    /\ (pc # "start" /\ ~IsPowerOfTwo(Len(leaves))) => (pc = "new_panicked" /\ tree = NoTree)
    /\ (pc \notin {"start", "new_panicked"}) =>
        /\ IsPowerOfTwo(Len(leaves))
        /\ Len(tree.leaf_nodes) = Len(leaves)
        /\ \A i \in 1..Len(leaves) : tree.leaf_nodes[i] = LeafHash(leaves[i])

C12_Witness ==
    /\ pc = "new_panicked" /\ Len(leaves) = 6 /\ tree = NoTree

\* The digest a tree stores for node j (from 0, left to right) of the level
\* `level` levels above the leaves; level 0 is the leaf digests.
LevelNode(t, level, j) ==
    IF level = 0 THEN t.leaf_nodes[j + 1]
    ELSE t.non_leaf_nodes[Pow2(t.height - 1 - level) + j]

\* The other child of the parent of node j.
OtherChild(j) == IF j % 2 = 0 THEN j + 1 ELSE j - 1

\* C13: generating a path fails for every index >= leaves.len() and
\* succeeds for every index < leaves.len(); the path returned holds that
\* index and, for every level from the leaves to below the root, the digest
\* of the sibling of the index's ancestor at that level.
C13_PathGeneration ==
    /\ pc \in {"proved", "proof_panicked"} =>
        (pc = "proof_panicked" <=> idx >= Len(leaves))
    /\ pc = "proved" =>
        /\ path.leaf_index = idx
        /\ Len(path.auth_path) + 1 = Log2(Len(leaves))
        /\ \A level \in PathLevels(path) :
            SiblingAt(path, level) = LevelNode(tree, level, OtherChild(idx \div Pow2(level)))

C13_Witness ==
    /\ pc = "proved" /\ Len(leaves) = 8 /\ idx = 5
    /\ path.leaf_index = 5
    /\ SiblingAt(path, 0) = tree.leaf_nodes[5]
    /\ SiblingAt(path, 1) = tree.non_leaf_nodes[6]
    /\ SiblingAt(path, 2) = tree.non_leaf_nodes[2]

\* The failing side of C13: an index past the last leaf.
C13_WitnessOutOfRange ==
    /\ pc = "proof_panicked" /\ Len(leaves) = 4 /\ idx = 5 /\ path = NoPath

\* C14: in every built tree each leaf digest is the leaf hash of the leaf
\* bytes, each node above two leaves is the parent hash of the converted
\* left and converted right leaf digest, each higher node is the parent hash
\* of its left and right child digest, left before right, and the root is
\* the single node of the top level.
C14_TreeInvariant ==
    (pc \notin {"start", "new_panicked"}) =>
        LET n == Len(leaves)
            top == Log2(n)
        IN  /\ Len(tree.leaf_nodes) = n
            /\ Len(tree.non_leaf_nodes) = n - 1
            /\ \A j \in 0..(n - 1) : LevelNode(tree, 0, j) = LeafHash(leaves[j + 1])
            /\ \A j \in 0..(n \div 2 - 1) :
                LevelNode(tree, 1, j) =
                    TwoToOneEvaluate(LeafInnerDigestConverter(LevelNode(tree, 0, 2 * j)),
                                     LeafInnerDigestConverter(LevelNode(tree, 0, 2 * j + 1)))
            /\ \A level \in 2..top : \A j \in 0..(n \div Pow2(level) - 1) :
                LevelNode(tree, level, j) =
                    TwoToOneCompress(LevelNode(tree, level - 1, 2 * j),
                                     LevelNode(tree, level - 1, 2 * j + 1))
            /\ Root(tree) = LevelNode(tree, top, 0)

\* A tree of eight leaves whose two halves differ.
C14_Witness ==
    /\ pc = "built" /\ Len(leaves) = 8
    /\ leaves[1] # leaves[2] /\ leaves[3] = leaves[4] /\ leaves[5] # leaves[8]
    /\ Root(tree) = TwoToOneCompress(tree.non_leaf_nodes[2], tree.non_leaf_nodes[3])
    /\ tree.non_leaf_nodes[2] # tree.non_leaf_nodes[3]

\* ------------------------------------------------------------------------
\* MerkleTreeVerification scenario (src/arkworks/src/bin/prove.rs main and
\* the tests of src/arkworks/src/constraints.rs): seven random leaves and the
\* leaf of a note, the path of index 7, then possibly a wrong root or a
\* missing path, then generate_constraints.
\* ------------------------------------------------------------------------

\* Field elements the note and its nonce are drawn from.
NoteFieldValues == {1, 2, 300}

\* The k-th of the seven random 64-byte leaves.
RandomLeaf(k) == [i \in 1..LeafBytes |-> Lit(k)]

\* The index the note's leaf is pushed at.
IdxToProve == 7

MtvLeaves(leaf) == [k \in 1..(IdxToProve + 1) |-> IF k <= IdxToProve THEN RandomLeaf(k) ELSE leaf]

\* Leaves the prover claims for a note: the commitment under a nonce, and
\* the converted leaf hash of the serialized note alone.
NoteLeaves(note, nonce) ==
    {NoteCommit(note, nonce), LeafInnerDigestConverter(LeafHash(NoteSerialize(note)))}

MtvSetup ==
    /\ mtv_pc = "start"
    /\ \E a \in NoteFieldValues, n \in NoteFieldValues, nonce \in NoteFieldValues :
        \E leaf \in NoteLeaves([amount |-> a, nullifier |-> n], nonce) :
            LET t == SimpleMerkleTreeNew(MtvLeaves(leaf))
            IN  /\ correct_root' = Root(t)
                /\ mtv' = [root |-> Root(t), leaf |-> leaf,
                           note_opening |-> [amount |-> a, nullifier |-> n],
                           auth_path |-> [some |-> TRUE,
                                          path |-> GenerateProof(t, IdxToProve)]]
    /\ mtv_pc' = "ready"
    /\ UNCHANGED mtv_cs
    /\ UNCHANGED outsideMtv

\* The root of the tree that differs in its first leaf.
SecondTreeRoot(leaf) == Root(SimpleMerkleTreeNew(ReplaceAt(MtvLeaves(leaf), 1, RandomLeaf(9))))

\* circuit.root = incorrect_root
MtvWrongRoot ==
    /\ mtv_pc = "ready"
    /\ mtv.root = correct_root
    /\ \E r \in {RandPoint(1), SecondTreeRoot(mtv.leaf)} :
        mtv' = [mtv EXCEPT !.root = r]
    /\ UNCHANGED <<mtv_pc, correct_root, mtv_cs>>
    /\ UNCHANGED outsideMtv

\* auth_path: None
MtvNoPath ==
    /\ mtv_pc = "ready"
    /\ mtv.auth_path.some
    /\ mtv' = [mtv EXCEPT !.auth_path = [some |-> FALSE, path |-> NoPath]]
    /\ UNCHANGED <<mtv_pc, correct_root, mtv_cs>>
    /\ UNCHANGED outsideMtv

\* circuit.generate_constraints(cs.clone())
MtvGenerateConstraints ==
    /\ mtv_pc = "ready"
    /\ mtv_cs' = mtv_generate_constraints(mtv)
    /\ mtv_pc' = "synthesized"
    /\ UNCHANGED <<mtv, correct_root>>
    /\ UNCHANGED outsideMtv

NextMtv ==
    \/ MtvSetup
    \/ MtvWrongRoot
    \/ MtvNoPath
    \/ MtvGenerateConstraints

SpecMtv == Init /\ [][NextMtv]_vars

\* ------------------------------------------------------------------------
\* Commitment scenario: commit to one (record, nonce) pair, to a second
\* pair, and to the first pair again.
\* ------------------------------------------------------------------------

\* Field elements the records and nonces are drawn from: they differ in
\* the first, second and third serialized byte.
CommitFieldValues == {0, 1, 256, 65536}

CommitPairs ==
    [amount : CommitFieldValues, ident : CommitFieldValues, nonce : CommitFieldValues]

\* card.commit(&leaf_crh_params, &com_rand) or note.commit(&leaf_crh_params, &nonce)
Commit(kind, p) ==
    IF kind = "card"
    THEN CardCommit([purchase_price |-> p.amount, serial_num |-> p.ident], p.nonce)
    ELSE NoteCommit([amount |-> p.amount, nullifier |-> p.ident], p.nonce)

CommitFirst ==
    /\ com_pc = "start"
    /\ \E kind \in {"card", "note"}, p \in CommitPairs :
        /\ com_kind' = kind
        /\ com_first' = p
        /\ leaf_first' = Commit(kind, p)
    /\ com_pc' = "first"
    /\ UNCHANGED <<com_second, leaf_second, leaf_again>>
    /\ UNCHANGED outsideCommit

CommitSecond ==
    /\ com_pc = "first"
    /\ \E p \in CommitPairs :
        /\ com_second' = p
        /\ leaf_second' = Commit(com_kind, p)
    /\ com_pc' = "second"
    /\ UNCHANGED <<com_kind, com_first, leaf_first, leaf_again>>
    /\ UNCHANGED outsideCommit

CommitAgain ==
    /\ com_pc = "second"
    /\ leaf_again' = Commit(com_kind, com_first)
    /\ com_pc' = "again"
    /\ UNCHANGED <<com_kind, com_first, com_second, leaf_first, leaf_second>>
    /\ UNCHANGED outsideCommit

NextCommit ==
    \/ CommitFirst
    \/ CommitSecond
    \/ CommitAgain

SpecCommit == Init /\ [][NextCommit]_vars

\* C11: commit is deterministic and binding: a repeated call on the same
\* (record, nonce) pair returns the same Leaf bytes, and two pairs that
\* differ in the nonce, the amount or the serial/nullifier get different
\* Leaf bytes of LeafBytes bytes each.
C11_DeterministicAndBinding ==
    /\ com_pc = "again" => leaf_again = leaf_first
    /\ com_pc \in {"second", "again"} =>
        /\ ByteLen(leaf_first) = LeafBytes /\ ByteLen(leaf_second) = LeafBytes
        /\ com_first # com_second => leaf_first # leaf_second

\* Two cards that differ only in the nonce, one of them zero.
C11_Witness ==
    /\ com_pc = "again" /\ com_kind = "card"
    /\ com_first = [amount |-> 256, ident |-> 0, nonce |-> 0]
    /\ com_second = [amount |-> 256, ident |-> 0, nonce |-> 65536]
    /\ leaf_first # leaf_second /\ leaf_again = leaf_first

\* The buffer Card::commit or Note::commit hands to the leaf hash.
CommitPreimage(kind, p) ==
    FSerialize(p.nonce)
        \o (IF kind = "card"
            THEN CardSerialize([purchase_price |-> p.amount, serial_num |-> p.ident])
            ELSE NoteSerialize([amount |-> p.amount, nullifier |-> p.ident]))

\* C27: the hash inputs stay within the Pedersen capacity: the commitment
\* preimage is 768 bits and the leaf 512 bits, both within the leaf window
\* of 6 * 128 = 768 bits, and the two digests hashed together are 1024 bits,
\* within the parent window of 8 * 144 = 1152 bits.
C27_WithinCapacity ==
    com_pc # "start" =>
        LET preimage == CommitPreimage(com_kind, com_first)
            digest == LeafInnerDigestConverter(LeafHash(leaf_first))
            inner == SerializeUncompressed(TwoToOneEvaluate(digest, digest))
        IN  /\ LeafCapacityBits = 768 /\ TwoToOneCapacityBits = 1152
            /\ ByteLen(preimage) * 8 = 768 /\ LeafHashFits(preimage)
            /\ ByteLen(leaf_first) * 8 = 512 /\ LeafHashFits(leaf_first)
            /\ ByteLen(digest) * 8 * 2 = 1024 /\ TwoToOneFits(digest, digest)
            /\ ByteLen(inner) * 8 * 2 = 1024 /\ TwoToOneFits(inner, inner)

\* A commitment whose preimage fills the leaf window exactly.
C27_Witness ==
    /\ com_pc = "first" /\ com_kind = "card"
    /\ com_first = [amount |-> 65536, ident |-> 256, nonce |-> 1]
    /\ ByteLen(CommitPreimage(com_kind, com_first)) * 8 = LeafCapacityBits
    /\ leaf_first = LeafInnerDigestConverter(LeafHash(CommitPreimage(com_kind, com_first)))

\* ------------------------------------------------------------------------
\* Properties of PossessionShowPriceCircuit
\* ------------------------------------------------------------------------

Synthesized == sp_pc = "synthesized"

CircuitCard ==
    [purchase_price |-> circuit.card_purchase_price, serial_num |-> circuit.card_serial_num]

\* (1) the native commitment to price, serial and randomness is the claimed leaf
OpeningHolds == CardCommit(CircuitCard, circuit.card_com_rand) = circuit.leaf

\* (2) the root natively recomputed from the claimed leaf and the path is
\* the claimed root
MembershipHolds == PathVerify(circuit.auth_path, circuit.root, circuit.leaf)

\* C2: the constraint system generate_constraints produces is satisfied
\* exactly when the opening and the membership both hold, and a genuine
\* circuit gives a satisfied system.
C2_SatisfiedIffBothChecks ==
    Synthesized =>
        /\ cs.status = "Ok" => (is_satisfied(cs) <=> (OpeningHolds /\ MembershipHolds))
        /\ circuit = setup(our_idx) => (cs.status = "Ok" /\ is_satisfied(cs))

C2_Witness ==
    /\ Synthesized /\ our_idx = 7 /\ circuit = setup(7)
    /\ cs.status = "Ok" /\ is_satisfied(cs)
    /\ OpeningHolds /\ MembershipHolds

\* C7: a genuine circuit with only card_purchase_price replaced by another
\* field element synthesizes, and its constraint system is not satisfied.
C7_PriceMauled ==
    (Synthesized
        /\ circuit.card_purchase_price # setup(our_idx).card_purchase_price
        /\ circuit = [setup(our_idx) EXCEPT !.card_purchase_price = circuit.card_purchase_price])
    => (cs.status = "Ok" /\ ~is_satisfied(cs))

C7_Witness ==
    /\ Synthesized /\ our_idx = 7
    /\ circuit = [setup(7) EXCEPT !.card_purchase_price = 258]
    /\ cs.status = "Ok" /\ ~is_satisfied(cs)

\* C8: a genuine circuit with only the claimed root replaced by another root
\* synthesizes, and its constraint system is not satisfied.
C8_RootMauled ==
    (Synthesized
        /\ circuit.root # setup(our_idx).root
        /\ circuit = [setup(our_idx) EXCEPT !.root = circuit.root])
    => (cs.status = "Ok" /\ ~is_satisfied(cs))

C8_Witness ==
    /\ Synthesized /\ our_idx = 7
    /\ circuit = [setup(7) EXCEPT !.root = RandPoint(1)]
    /\ cs.status = "Ok" /\ ~is_satisfied(cs)

\* The constraint system of the genuine circuit the scenario started from.
GenuineSystem == generate_constraints(setup(our_idx))

\* Two constraint systems have the same structure: the same outcome, the
\* same allocations in the same order, the same number of constraints.
SameStructure(a, b) ==
    /\ a.status = b.status
    /\ a.allocated = b.allocated
    /\ Len(a.constraints) = Len(b.constraints)

SamePathLength == Len(circuit.auth_path.auth_path) = Len(setup(our_idx).auth_path.auth_path)

C21_WitnessShorterPath ==
    /\ Synthesized /\ ~SamePathLength
    /\ cs.status = "Ok" /\ cs.allocated # GenuineSystem.allocated

\* C24: the leaf equated with the recomputed commitment is the leaf the root
\* is recomputed from, so whenever the constraint system is satisfied the
\* commitment the card opens to is itself the member the path proves: no
\* satisfied system opens to one leaf and proves membership of another.
C24_OneLeaf ==
    (Synthesized /\ cs.status = "Ok") =>
        /\ cs.constraints[1][2] = circuit.leaf
        /\ cs.constraints[2][1]
            = CalculateRoot(PathVarNew(circuit.auth_path), cs.constraints[1][2])
        /\ is_satisfied(cs) =>
            /\ cs.computed_card_com = circuit.leaf
            /\ PathVerify(circuit.auth_path, circuit.root, cs.computed_card_com)

\* A card with another price and the leaf it opens to, with the path of the
\* genuine leaf: the opening holds, the membership of that leaf does not,
\* and the system is not satisfied.
C24_Witness ==
    /\ Synthesized /\ cs.status = "Ok" /\ our_idx = 7
    /\ circuit.card_purchase_price = 258
    /\ circuit.leaf # setup(7).leaf
    /\ OpeningHolds /\ ~MembershipHolds
    /\ PathVerify(circuit.auth_path, circuit.root, setup(7).leaf)
    /\ ~is_satisfied(cs)

\* C25: a genuine circuit with only the public card_serial_num replaced by
\* another field element synthesizes, and its constraint system is not
\* satisfied: a show of this card with another serial is rejected.
C25_SerialMauled ==
    (Synthesized
        /\ circuit.card_serial_num # setup(our_idx).card_serial_num
        /\ circuit = [setup(our_idx) EXCEPT !.card_serial_num = circuit.card_serial_num])
    => (cs.status = "Ok" /\ ~is_satisfied(cs))

C25_Witness ==
    /\ Synthesized /\ our_idx = 7
    /\ circuit = [setup(7) EXCEPT !.card_serial_num = 66051]
    /\ cs.status = "Ok" /\ ~is_satisfied(cs)
    /\ cs.constraints[1][1] # cs.constraints[1][2]

\* C10: for every card and commitment randomness the bytes CardVar::commit
\* computes in the circuit are the 64 bytes Card::commit returns natively.
C10_CommitAgrees ==
    Synthesized =>
        /\ cs.computed_card_com = CardCommit(CircuitCard, circuit.card_com_rand)
        /\ ByteLen(cs.computed_card_com) = LeafBytes

\* A card whose fields span one, two and three bytes.
C10_Witness ==
    /\ Synthesized
    /\ circuit.card_purchase_price = 66051
    /\ circuit.card_com_rand = 258
    /\ circuit.card_serial_num = 2007
    /\ cs.computed_card_com = CardCommit(CircuitCard, circuit.card_com_rand)

\* ------------------------------------------------------------------------
\* Properties of MerkleTreeVerification
\* ------------------------------------------------------------------------

\* C9: when the root public input is the root of another tree than the one
\* the auth path was generated from, the constraint system
\* generate_constraints produces is not satisfied.
C9_WrongRootUnsatisfied ==
    (mtv_pc = "synthesized" /\ mtv_cs.status = "Ok" /\ mtv.root # correct_root)
    => ~is_satisfied(mtv_cs)

\* The first check of MerkleTreeVerification as its source states it: the
\* leaf is the converted leaf hash of the witnessed note.
MtvOpeningHolds ==
    mtv.leaf = LeafInnerDigestConverter(LeafHash(NoteSerialize(mtv.note_opening)))

\* C15 on MerkleTreeVerification: an instance with a path whose opening or
\* root is wrong synthesizes (Ok), and its constraint system is not
\* satisfied.
C15_FalseStatementUnsatisfied ==
    (mtv_pc = "synthesized" /\ mtv.auth_path.some
        /\ (~MtvOpeningHolds \/ mtv.root # correct_root))
    => (mtv_cs.status = "Ok" /\ ~is_satisfied(mtv_cs))

\* C15 on PossessionShowPriceCircuit: an instance with a 64-byte leaf whose
\* opening or membership is wrong synthesizes (Ok), and its constraint
\* system is not satisfied.
C15_ShowPriceFalseStatement ==
    (Synthesized /\ ByteLen(circuit.leaf) = LeafBytes
        /\ (~OpeningHolds \/ ~MembershipHolds))
    => (cs.status = "Ok" /\ ~is_satisfied(cs))

\* C16: with auth_path = None, generate_constraints returns a
\* SynthesisError to its caller.
C16_MissingWitnessIsSynthesisError ==
    (mtv_pc = "synthesized" /\ ~mtv.auth_path.some)
    => mtv_cs.status = "SynthesisError"

\* C23: when the leaf public input is Note::commit of the witnessed note
\* under some nonce, the commitment MerkleTreeVerification recomputes in the
\* circuit is that leaf, and the equality it enforces between the two holds.
C23_HonestOpeningAccepted ==
    (mtv_pc = "synthesized" /\ mtv.auth_path.some
        /\ \E nonce \in NoteFieldValues : mtv.leaf = NoteCommit(mtv.note_opening, nonce))
    => /\ mtv_cs.status = "Ok"
       /\ mtv_cs.computed_card_com = mtv.leaf
       /\ mtv_cs.constraints[1][1] = mtv_cs.constraints[1][2]

\* ------------------------------------------------------------------------
\* Public inputs of the prove and verify binaries (src/src/bin/prove.rs,
\* src/src/bin/verify.rs). A public input is a field element: <<0, v>> the
\* element v, <<1, d>> and <<2, d>> the x and y coordinate of the point d,
\* <<3, <<bs, lo, hi>>>> the element packed from bytes lo..hi of bs.
\* ------------------------------------------------------------------------

\* Bytes packed into one field element by <[u8]>::to_field_elements:
\* (MODULUS_BIT_SIZE - 1) / 8.
MaxBytesPerElement == (FieldBits - 1) \div 8

\* F::to_field_elements
FToFieldElements(v) == << <<0, v>> >>

\* MerkleRoot::to_field_elements: the affine coordinates x, y.
RootToFieldElements(root) == << <<1, root>>, <<2, root>> >>

\* <[u8]>::to_field_elements: one element per chunk of 31 bytes.
BytesToFieldElements(bs) ==
    LET n == ByteLen(bs)
        chunks == (n + MaxBytesPerElement - 1) \div MaxBytesPerElement
    IN  [k \in 1..chunks |->
            <<3, <<bs, MaxBytesPerElement * (k - 1) + 1,
                   IF MaxBytesPerElement * k < n THEN MaxBytesPerElement * k ELSE n>> >>]

\* gen_proof_package: the public inputs the prover hands to verify_proof.
gen_proof_package(root, serial_num, the_leaf) ==
    RootToFieldElements(root) \o FToFieldElements(serial_num)
        \o BytesToFieldElements(the_leaf)

\* verify main: the public inputs assembled from the Merkle root of the
\* command line and the serial read from the revealed-serial file.
verify_public_inputs(given_merkle_root, card_serial) ==
    RootToFieldElements(given_merkle_root) \o FToFieldElements(card_serial)

\* prove_showprice main: the public inputs handed to verify_proof.
showprice_public_inputs(root, serial_num, purchase_price) ==
    RootToFieldElements(root) \o FToFieldElements(serial_num)
        \o FToFieldElements(purchase_price)

\* The field elements the allocation under a namespace of
\* PossessionShowPriceCircuit::generate_constraints assigns, for the
\* allocations of curve points and field elements.
AllocatedElements(c, name) ==
    CASE name = "root" -> RootToFieldElements(c.root)
      [] name = "card serial" -> FToFieldElements(c.card_serial_num)
      [] name = "purchase price" -> FToFieldElements(c.card_purchase_price)
      [] name = "card com_rand" -> FToFieldElements(c.card_com_rand)
      [] OTHER -> <<>>

\* The allocations of one mode, in allocation order.
AllocationsOfMode(allocs, mode) == SelectSeq(allocs, LAMBDA a : a[1] = mode)

NamespacesOf(allocs) == [k \in 1..Len(allocs) |-> allocs[k][2]]

\* The instance assignment of a constraint system: the elements of its
\* public inputs in allocation order (after the constant one).
RECURSIVE InstanceAssignment(_, _)
InstanceAssignment(c, allocs) ==
    IF allocs = <<>> THEN <<>>
    ELSE (IF Head(allocs)[1] = "input" THEN AllocatedElements(c, Head(allocs)[2]) ELSE <<>>)
            \o InstanceAssignment(c, Tail(allocs))

\* Field elements the prover's card and nonce are drawn from.
CardFieldValues == {5, 600, 70000}

\* The seven random leaves followed by the card commitment.
ProverLeaves(card_com) == MtvLeaves(card_com)

\* prove main: a random card, its commitment as leaf 7 of the tree, and a
\* proof package for the correct root or for the incorrect root.
ProveMain ==
    /\ bin_pc = "start"
    /\ \E p \in [amount : CardFieldValues, ident : CardFieldValues, nonce : CardFieldValues],
          wrong \in BOOLEAN :
        LET card == [purchase_price |-> p.amount, serial_num |-> p.ident]
            card_com == CardCommit(card, p.nonce)
            t == SimpleMerkleTreeNew(ProverLeaves(card_com))
            correct == Root(t)
            incorrect_root == RandPoint(1)
            root == IF wrong THEN incorrect_root ELSE correct
        IN  /\ bin_card' = p
            /\ bin_root' = root
            /\ prover_inputs' = gen_proof_package(root, card.serial_num, card_com)
    /\ bin_pc' = "proved"
    /\ UNCHANGED <<given_root, given_serial, verifier_inputs>>
    /\ UNCHANGED outsideBin

\* verify main, up to the call of verify_proof.
VerifyMain ==
    /\ bin_pc = "proved"
    /\ \E r \in {bin_root, RandPoint(2)}, serial \in CardFieldValues :
        /\ given_root' = r
        /\ given_serial' = serial
        /\ verifier_inputs' = verify_public_inputs(r, serial)
    /\ bin_pc' = "assembled"
    /\ UNCHANGED <<bin_card, bin_root, prover_inputs>>
    /\ UNCHANGED outsideBin

NextBin ==
    \/ ProveMain
    \/ VerifyMain

SpecBin == Init /\ [][NextBin]_vars

\* C17: when the verifier is given the root and the serial of the prover's
\* possession proof, the public inputs it assembles are the public inputs
\* the prover passed to verify_proof, element by element.
C17_SamePublicInputs ==
    (bin_pc = "assembled" /\ given_root = bin_root /\ given_serial = bin_card.ident)
    => verifier_inputs = prover_inputs

MaxWrites == 2

\* Values written: field elements of one, two and three significant bytes
\* and two points.
FileValues ==
    {FieldValue(1), FieldValue(258), FieldValue(66051),
     PointValue(<<0, 1>>), PointValue(<<0, 2>>)}

\* Point candidates a damaged encoding can decode to.
DamagedPoints == {<<0, 3>>, <<1, 1>>, <<2, 1>>}

\* Bytes a damaged byte is replaced by.
DamagedBytes == {0, 2, 116, 128, 255}

\* write_to_file(path, &x)
WriteToFile ==
    /\ file_pc \in {"start", "written"}
    /\ writes < MaxWrites
    /\ \E x \in FileValues :
        /\ file' = write_to_file(file, x)
        /\ last_written' = x
    /\ tampered' = FALSE
    /\ writes' = writes + 1
    /\ file_pc' = "written"
    /\ UNCHANGED read_result
    /\ UNCHANGED outsideFile

\* The file loses its tail.
Truncate ==
    /\ file_pc = "written" /\ ~tampered
    /\ \E n \in {0, 1, FieldBytes - 1, FieldBytes, PointBytes - 1} :
        /\ n < FileLen(file.content)
        /\ file' = [file EXCEPT !.content = TakeBytes(file.content, n)]
    /\ tampered' = TRUE
    /\ UNCHANGED <<file_pc, last_written, writes, read_result>>
    /\ UNCHANGED outsideFile

\* One byte of a stored field element changes: the first or the second
\* byte, to a value that leaves the element below the modulus, or the last
\* byte, to a value that lifts it to the modulus or above.
DamageByte ==
    /\ file_pc = "written" /\ ~tampered
    /\ TypeOf(last_written) = "F"
    /\ \E k \in {1, 2, FieldBytes}, b \in DamagedBytes :
        /\ k = FieldBytes => b > FModulusBytes[1]
        /\ k < FieldBytes => b < FModulusBytes[1]
        /\ file.content[k] # Lit(b)
        /\ file' = [file EXCEPT !.content[k] = Lit(b)]
    /\ tampered' = TRUE
    /\ UNCHANGED <<file_pc, last_written, writes, read_result>>
    /\ UNCHANGED outsideFile

\* Bits of a stored point encoding change: it now decodes to another point
\* of the subgroup, to a point outside the subgroup, or to no point.
DamagePoint ==
    /\ file_pc = "written" /\ ~tampered
    /\ TypeOf(last_written) = "G"
    /\ \E p \in DamagedPoints :
        file' = [file EXCEPT !.content[1] = PointChunk(p, 1, PointBytes)]
    /\ tampered' = TRUE
    /\ UNCHANGED <<file_pc, last_written, writes, read_result>>
    /\ UNCHANGED outsideFile

\* Bytes are added after the stored value.
AppendBytes ==
    /\ file_pc = "written" /\ ~tampered
    /\ \E b \in DamagedBytes :
        file' = [file EXCEPT !.content = Append(file.content, Lit(b))]
    /\ tampered' = TRUE
    /\ UNCHANGED <<file_pc, last_written, writes, read_result>>
    /\ UNCHANGED outsideFile

\* let x: S = read_from_file(path), S the type last written to the path, or
\* any type when nothing was written.
ReadFromFile ==
    /\ file_pc \in {"start", "written"}
    /\ \E reader \in {"util", "common"}, ty \in {"F", "G"} :
        /\ file_pc = "written" => ty = TypeOf(last_written)
        /\ Decodable(ty, file.content)
        /\ read_result' = read_from_file(reader, ty, file)
    /\ file_pc' = "read"
    /\ UNCHANGED <<file, last_written, tampered, writes>>
    /\ UNCHANGED outsideFile

NextFile ==
    \/ WriteToFile
    \/ Truncate
    \/ DamageByte
    \/ DamagePoint
    \/ AppendBytes
    \/ ReadFromFile

SpecFile == Init /\ [][NextFile]_vars

C30_NoStaleBytes ==
    (file_pc = "written" /\ ~tampered)
    => (file.exists /\ file.content = serialize_compressed(last_written))

\* The content is the serialization of a value of type ty, nothing more and
\* nothing less.
ValidSerialization(ty, content) ==
    /\ FileLen(content) = SerializedLen(ty)
    /\ Decodable(ty, content)
    /\ IF ty = "F" THEN BelowModulus(content)
       ELSE InSubgroup(content[1][2][1])

\* C19: whenever the content of the file is not the valid serialization of
\* a value of the requested type, read_from_file aborts and returns no
\* value.
C19_CorruptBytesAbort ==
    (file_pc = "read" /\ file.exists
        /\ ~ValidSerialization(read_result.ty, file.content))
    => read_result.status = "panic"

\* What does hold of C19: content shorter than the value, a field element
\* not below the modulus and an encoding of no curve point abort both
\* readers, and a point outside the subgroup aborts the validating reader.
C19_DetectedDamageAborts ==
    (file_pc = "read" /\ file.exists) =>
        LET ty == read_result.ty
            content == file.content
        IN  /\ FileLen(content) < SerializedLen(ty) => read_result.status = "panic"
            /\ (FileLen(content) >= SerializedLen(ty) /\ ty = "F"
                    /\ ~BelowModulus(SubSeq(content, 1, FieldBytes)))
                => read_result.status = "panic"
            /\ (FileLen(content) >= SerializedLen(ty) /\ ty = "G"
                    /\ ~OnCurve(content[1][2][1]))
                => read_result.status = "panic"
            /\ (FileLen(content) >= SerializedLen(ty) /\ ty = "G"
                    /\ ~InSubgroup(content[1][2][1]) /\ read_result.reader = "common")
                => read_result.status = "panic"

\* ------------------------------------------------------------------------
\* Fixture scenario (src/src/util.rs): gen_test_tree is called by two
\* binaries, get_test_leaf and get_test_card are called for some index;
\* every call runs all_cards() on a fresh test_rng().
\* ------------------------------------------------------------------------

\* let tree = gen_test_tree(&leaf_crh_params, &two_to_one_crh_params)
GenTestTree ==
    /\ fx_tree_a = NoTree
    /\ fx_tree_a' = gen_test_tree
    /\ UNCHANGED <<fx_tree_b, fx_leaf_idx, fx_leaf, fx_card_idx, fx_card>>
    /\ UNCHANGED outsideFixture

\* The same call in another binary.
GenTestTreeAgain ==
    /\ fx_tree_b = NoTree
    /\ fx_tree_b' = gen_test_tree
    /\ UNCHANGED <<fx_tree_a, fx_leaf_idx, fx_leaf, fx_card_idx, fx_card>>
    /\ UNCHANGED outsideFixture

\* get_test_leaf(&leaf_crh_params, i)
GetTestLeaf ==
    /\ fx_leaf_idx = NoIndex
    /\ \E i \in 0..(NumCards - 1) :
        /\ fx_leaf_idx' = i
        /\ fx_leaf' = get_test_leaf(i)
    /\ UNCHANGED <<fx_tree_a, fx_tree_b, fx_card_idx, fx_card>>
    /\ UNCHANGED outsideFixture

\* get_test_card(i)
GetTestCard ==
    /\ fx_card_idx = NoIndex
    /\ \E i \in 0..(NumCards - 1) :
        /\ fx_card_idx' = i
        /\ fx_card' = get_test_card(i)
    /\ UNCHANGED <<fx_tree_a, fx_tree_b, fx_leaf_idx, fx_leaf>>
    /\ UNCHANGED outsideFixture

NextFixture ==
    \/ GenTestTree
    \/ GenTestTreeAgain
    \/ GetTestLeaf
    \/ GetTestCard

SpecFixture == Init /\ [][NextFixture]_vars

VerifyArgs == 5

\* A run that prints the success message whatever verify_proof returned.
verify_outcome_without_assert(printed, verified) ==
    [printed |-> printed \o <<"Proof verified successfully">>,
     panic |-> NoPanic, verify_proof |-> verified]

\* assert!(verify_proof(..).unwrap(), "proof failed to verify") and the
\* println! after it.
verify_outcome(printed, verified) ==
    IF verified = "Err"
    THEN [printed |-> printed, panic |-> <<"unwrap on Err(MalformedVerifyingKey)", "">>,
          verify_proof |-> verified]
    ELSE IF verified = "Ok(false)"
    THEN [printed |-> printed, panic |-> <<"proof failed to verify", "">>,
          verify_proof |-> verified]
    ELSE [printed |-> printed \o <<"Proof verified successfully">>,
          panic |-> NoPanic, verify_proof |-> verified]

\* ark_groth16::verify_proof: an error when the number of public inputs is
\* not the number the key was prepared for, else the pairing check.
verify_proof(pvk, accepts, public_inputs) ==
    IF Len(public_inputs) # pvk.inputs THEN "Err"
    ELSE IF accepts THEN "Ok(true)" ELSE "Ok(false)"

\* The panic of read_from_file on a key or proof file, if any.
ReadPanic(kind, name) ==
    IF kind = "missing" THEN <<"could not open for reading", name>>
    ELSE IF kind = "garbage" THEN <<"failed to deserialize from", name>>
    ELSE NoPanic

\* The panic of read_from_file::<F> on the serial file, if any.
ReadSerialPanic(f) ==
    IF read_from_file("util", "F", f).status = "returned" THEN NoPanic
    ELSE IF ~f.exists THEN <<"could not open for reading", "serial">>
    ELSE <<"failed to deserialize from", "serial">>

Stopped(printed, panic) == [printed |-> printed, panic |-> panic, verify_proof |-> "not called"]

\* verify main
verify_main(env) ==
    LET reading == <<"Reading verifying key, proof, and public inputs...">>
    IN  IF env.argc # VerifyArgs
        THEN Stopped(<<"Error: bad command line arguments">>, <<"bad command line input", "">>)
        ELSE IF env.root_arg = "not zbase32"
        THEN Stopped(<<>>, <<"could not decode Merkle root string", "">>)
        ELSE IF env.root_arg = "not a hash"
        THEN Stopped(<<>>, <<"Merkle root string is an invalid hash", "">>)
        ELSE IF ReadPanic(env.vk_file.kind, "key") # NoPanic
        THEN Stopped(reading, ReadPanic(env.vk_file.kind, "key"))
        ELSE IF ReadPanic(env.proof_file, "proof") # NoPanic
        THEN Stopped(reading, ReadPanic(env.proof_file, "proof"))
        ELSE IF ReadSerialPanic(env.serial_file) # NoPanic
        THEN Stopped(reading, ReadSerialPanic(env.serial_file))
        ELSE LET card_serial == read_from_file("util", "F", env.serial_file).value[2]
                 public_inputs == verify_public_inputs(env.given_merkle_root, card_serial)
             IN  verify_outcome(reading,
                                verify_proof(env.vk_file, env.accepts, public_inputs))

\* Key files: missing, garbage, the key of a circuit whose public inputs are
\* a root and a serial, and the key of the show-price circuit (root, serial,
\* price).
KeyFiles ==
    {[kind |-> "missing", inputs |-> 0], [kind |-> "garbage", inputs |-> 0],
     [kind |-> "valid", inputs |-> Len(verify_public_inputs(NoDigest, 0))],
     [kind |-> "valid", inputs |-> Len(verify_public_inputs(NoDigest, 0)) + 1]}

\* Serial files: missing, a written serial, and that file cut short.
SerialFiles ==
    {NoFile, write_to_file(NoFile, FieldValue(600)),
     [exists |-> TRUE,
      content |-> TakeBytes(write_to_file(NoFile, FieldValue(600)).content, FieldBytes - 1)]}

\* The binary is started on some command line and files; accepts says
\* whether the pairing check of the proof holds for the verifier's inputs.
VerifyInvoke ==
    /\ vf_pc = "start"
    /\ \E n \in {VerifyArgs - 1, VerifyArgs, VerifyArgs + 1},
          r \in {"not zbase32", "not a hash", "root"},
          k \in KeyFiles, pf \in {"missing", "garbage", "valid"},
          sf \in SerialFiles, a \in BOOLEAN :
        vf_env' = [argc |-> n, root_arg |-> r,
                   given_merkle_root |-> IF r = "root" THEN RandPoint(2) ELSE NoDigest,
                   vk_file |-> k, proof_file |-> pf, serial_file |-> sf, accepts |-> a]
    /\ vf_pc' = "invoked"
    /\ UNCHANGED vf_out
    /\ UNCHANGED outsideVerify

VerifyRun ==
    /\ vf_pc = "invoked"
    /\ vf_out' = verify_main(vf_env)
    /\ vf_pc' = "done"
    /\ UNCHANGED vf_env
    /\ UNCHANGED outsideVerify

NextVerify ==
    \/ VerifyInvoke
    \/ VerifyRun

SpecVerify == Init /\ [][NextVerify]_vars

\* The command line or a file is malformed.
MalformedInput ==
    \/ vf_env.argc # VerifyArgs
    \/ vf_env.root_arg # "root"
    \/ vf_env.vk_file.kind # "valid"
    \/ vf_env.proof_file # "valid"
    \/ read_from_file("util", "F", vf_env.serial_file).status # "returned"

\* The key is the key of a circuit with the public inputs verify assembles.
KeyMatches == vf_env.vk_file.inputs = Len(verify_public_inputs(NoDigest, 0))

Succeeded == vf_out.printed # <<>> /\ vf_out.printed[Len(vf_out.printed)] = "Proof verified successfully"

\* C22: the success message is printed only when verify_proof returned
\* true; with well-formed input and a key for the verifier's inputs, a proof
\* that does not verify ends in the panic "proof failed to verify"; and
\* every malformed input (argument count, root string, key, proof or serial
\* file) ends in a panic with another message, without the success message.
C22_DistinguishableOutcomes ==
    vf_pc = "done" =>
        /\ Succeeded => vf_out.verify_proof = "Ok(true)"
        /\ (~MalformedInput /\ KeyMatches /\ ~vf_env.accepts)
            => (vf_out.panic = <<"proof failed to verify", "">> /\ ~Succeeded)
        /\ MalformedInput
            => (vf_out.panic \notin {NoPanic, <<"proof failed to verify", "">>}
                /\ ~Succeeded /\ vf_out.verify_proof = "not called")

\* A well-formed run on a proof that does not verify.
C22_Witness ==
    /\ vf_pc = "done" /\ ~MalformedInput /\ ~vf_env.accepts
    /\ vf_out.verify_proof = "Ok(false)"
    /\ vf_out.panic = <<"proof failed to verify", "">>

\* A run on a serial file cut short.
C22_WitnessMalformed ==
    /\ vf_pc = "done" /\ vf_env.argc = VerifyArgs /\ vf_env.root_arg = "root"
    /\ vf_env.vk_file.kind = "valid" /\ vf_env.proof_file = "valid"
    /\ vf_out.panic = <<"failed to deserialize from", "serial">>

\* ------------------------------------------------------------------------
\* The prove_showprice binary (src/src/bin/prove_showprice.rs): its main
\* function step by step, on a command line, a parameter file, a proving key
\* file, the verifying key file and three output files.
\* ------------------------------------------------------------------------

\* args.len() of a well-formed command line.
ProveArgs == 4

\* The index of the card the prover holds.
ProverIdx == 7

\* A root comparison that accepts any root.
roots_match_unchecked(root, given_merkle_root) == TRUE

\* assert_eq!(root, given_merkle_root, ..)
roots_match(root, given_merkle_root) == root = given_merkle_root

\* The circuit main builds: the fields test::setup fills, for our_idx.
prove_showprice_circuit == setup(ProverIdx)

\* Verifying key files: missing, garbage, the key generated with the proving
\* key, a key of another parameter generation, and a key prepared for
\* another number of public inputs.
ProverKeyFiles ==
    LET n == Len(showprice_public_inputs(NoDigest, 0, 0))
    IN  {[kind |-> "missing", inputs |-> 0, paired |-> FALSE],
         [kind |-> "garbage", inputs |-> 0, paired |-> FALSE],
         [kind |-> "valid", inputs |-> n, paired |-> TRUE],
         [kind |-> "valid", inputs |-> n, paired |-> FALSE],
         [kind |-> "valid", inputs |-> n - 1, paired |-> FALSE]}

PsPanic(msg) ==
    /\ ps_panic' = msg
    /\ ps_pc' = "panicked"
    /\ UNCHANGED <<ps_env, ps_files, ps_log>>

PsStep(next, event) ==
    /\ ps_pc' = next
    /\ ps_log' = Append(ps_log, event)
    /\ UNCHANGED <<ps_env, ps_files, ps_panic>>

\* The binary is started on some command line and files.
PsInvoke ==
    /\ ps_pc = "start"
    /\ \E n \in {ProveArgs - 1, ProveArgs, ProveArgs + 1},
          r \in {"not zbase32", "not a hash", "root", "other root"},
          pf \in {"missing", "garbage", "valid"}, kf \in {"missing", "garbage", "valid"},
          vf \in ProverKeyFiles, u \in OutputFiles \cup {"none"} :
        ps_env' = [argc |-> n, root_arg |-> r,
                   given_merkle_root |->
                       IF r = "root" THEN Root(gen_test_tree)
                       ELSE IF r = "other root" THEN SecondRoot ELSE NoDigest,
                   params_file |-> pf, pk_file |-> kf, vk_file |-> vf, unwritable |-> u]
    /\ ps_pc' = "invoked"
    /\ UNCHANGED <<ps_files, ps_log, ps_panic>>
    /\ UNCHANGED outsideProve

\* Lines 35-48: the argument count and the Merkle root string.
PsParseArgs ==
    /\ ps_pc = "invoked"
    /\ IF ps_env.argc # ProveArgs THEN PsPanic(<<"bad command line input", "">>)
       ELSE IF ps_env.root_arg = "not zbase32"
       THEN PsPanic(<<"could not decode Merkle root string", "">>)
       ELSE IF ps_env.root_arg = "not a hash"
       THEN PsPanic(<<"Merkle root string is an invalid hash", "">>)
       ELSE PsStep("parsed", "parsed arguments")
    /\ UNCHANGED outsideProve

\* Lines 56-60: the hash parameters and the proving key are read.
PsReadKeys ==
    /\ ps_pc = "parsed"
    /\ IF ReadPanic(ps_env.params_file, "params") # NoPanic
       THEN PsPanic(ReadPanic(ps_env.params_file, "params"))
       ELSE IF ReadPanic(ps_env.pk_file, "proving key") # NoPanic
       THEN PsPanic(ReadPanic(ps_env.pk_file, "proving key"))
       ELSE PsStep("read", "read keys")
    /\ UNCHANGED outsideProve

\* Lines 62-69: the test tree is regenerated and its root compared with the
\* root given on the command line.
PsCheckRoot ==
    /\ ps_pc = "read"
    /\ IF roots_match(Root(gen_test_tree), ps_env.given_merkle_root)
       THEN PsStep("root checked", "root checked")
       ELSE PsPanic(<<"The Merkle root I'm trying to use is different than the one you gave me", "">>)
    /\ UNCHANGED outsideProve

\* Lines 71-105: the circuit is built and create_random_proof(..).unwrap()
\* synthesizes it.
PsCreateProof ==
    /\ ps_pc = "root checked"
    /\ IF generate_constraints(prove_showprice_circuit).status = "Ok"
       THEN PsStep("proved", "proof created")
       ELSE PsPanic(<<"panic in generate_constraints", "">>)
    /\ UNCHANGED outsideProve

\* Lines 112-122: the verifying key is read and the proof verified against
\* the public inputs; the pairing check holds when the key belongs to the
\* proving key and the circuit's constraint system is satisfied.
PsVerify ==
    /\ ps_pc = "proved"
    /\ LET vk == ps_env.vk_file
           c == prove_showprice_circuit
           public_inputs == showprice_public_inputs(c.root, c.card_serial_num,
                                                    c.card_purchase_price)
           accepts == vk.paired /\ is_satisfied(generate_constraints(c))
           verified == verify_proof(vk, accepts, public_inputs)
       IN  IF ReadPanic(vk.kind, "verifying key") # NoPanic
           THEN PsPanic(ReadPanic(vk.kind, "verifying key"))
           ELSE IF verified = "Err"
           THEN PsPanic(<<"unwrap on Err(MalformedVerifyingKey)", "">>)
           ELSE IF verified = "Ok(false)"
           THEN PsPanic(<<"honest proof failed to verify with supplied verifying key", "">>)
           ELSE PsStep("verified", "proof verified")
    /\ UNCHANGED outsideProve

\* write_to_file(name, value) of lines 125-127: a file that cannot be opened
\* for writing panics.
PsWrite(from, name, value, next) ==
    /\ ps_pc = from
    /\ IF ps_env.unwritable = name
       THEN PsPanic(<<"could not open for writing", name>>)
       ELSE /\ ps_files' = [ps_files EXCEPT ![name] = write_to_file(@, value)]
            /\ ps_pc' = next
            /\ ps_log' = Append(ps_log, name)
            /\ UNCHANGED <<ps_env, ps_panic>>
    /\ UNCHANGED outsideProve

PsWriteProof == PsWrite("verified", "proof", PointValue(<<0, 1>>), "wrote proof")

PsWriteSerial ==
    PsWrite("wrote proof", "serial", FieldValue(prove_showprice_circuit.card_serial_num),
            "wrote serial")

PsWritePrice ==
    PsWrite("wrote serial", "price", FieldValue(prove_showprice_circuit.card_purchase_price),
            "done")

NextProve ==
    \/ PsInvoke
    \/ PsParseArgs
    \/ PsReadKeys
    \/ PsCheckRoot
    \/ PsCreateProof
    \/ PsVerify
    \/ PsWriteProof
    \/ PsWriteSerial
    \/ PsWritePrice

SpecProve == Init /\ [][NextProve]_vars

\* The steps completed so far.
Done(event) == \E k \in 1..Len(ps_log) : ps_log[k] = event

\* Step a was completed before step b.
Before(a, b) ==
    \E i \in 1..Len(ps_log), j \in 1..Len(ps_log) : i < j /\ ps_log[i] = a /\ ps_log[j] = b

\* C28: a proof is created only after the regenerated root was found equal
\* to the given root, so a differing root aborts before any proof; each of
\* the three files is written only after the created proof has verified;
\* and a run that fails before that has written none of them.
C28_StepOrder ==
    /\ Done("proof created") =>
        /\ Before("root checked", "proof created")
        /\ ps_env.given_merkle_root = Root(gen_test_tree)
    /\ (ps_pc = "panicked" /\ ps_env.root_arg = "other root") => ~Done("proof created")
    /\ \A n \in OutputFiles :
        (Done(n) \/ ps_files[n].exists) =>
            /\ Before("proof created", "proof verified")
            /\ Before("proof verified", n)
    /\ (ps_pc = "panicked" /\ ~Done("proof verified")) => ps_files = NoOutputFiles

\* A run that wrote the three files.
C28_Witness ==
    /\ ps_pc = "done"
    /\ ps_log = <<"parsed arguments", "read keys", "root checked", "proof created",
                  "proof verified", "proof", "serial", "price">>
    /\ \A n \in OutputFiles : ps_files[n].exists

\* A run given another root: it stops at the comparison.
C28_WitnessOtherRoot ==
    /\ ps_pc = "panicked" /\ ps_env.root_arg = "other root"
    /\ ps_log = <<"parsed arguments", "read keys">>
    /\ ps_files = NoOutputFiles

\* ------------------------------------------------------------------------
\* The shape of the key generation circuit and of the prover's circuit
\* (src/src/bin/gen_params_showprice.rs, src/src/bin/prove_showprice.rs)
\* ------------------------------------------------------------------------

\* The index gen_params_showprice generates its placeholder path for.
PlaceholderIdx == 0

\* The placeholder circuit of gen_params_showprice: a random root, the zero
\* leaf, random field elements and the path of index 0 of the test tree.
placeholder_circuit ==
    [root |-> RandPoint(1), leaf |-> Zeros(LeafBytes), card_serial_num |-> 258,
     card_purchase_price |-> 66051, card_com_rand |-> 1,
     auth_path |-> GenerateProof(gen_test_tree, PlaceholderIdx)]

\* The constraint systems the two circuits synthesize.
PlaceholderSystem == generate_constraints(placeholder_circuit)
ProverSystem == generate_constraints(prove_showprice_circuit)

\* Sibling digests of a path: the leaf sibling and the auth_path.
SiblingDigests(p) == Len(p.auth_path) + 1

\* The numbers of sibling digests of the paths of the test tree.
TestTreePathLengths ==
    {SiblingDigests(GenerateProof(gen_test_tree, i)) : i \in 0..(NumCards - 1)}

\* C29: in a built tree of n leaves the path generated for any index has
\* log2 n sibling digests; so have the paths of the 16-leaf test tree, and
\* the placeholder circuit of key generation (path of index 0) allocates
\* what the prover's circuit (path of index 7) allocates.
C29_PathLengthUniform ==
    /\ pc = "built" =>
        \A i \in 0..(Len(leaves) - 1) :
            SiblingDigests(GenerateProof(tree, i)) = Log2(Len(leaves))
    /\ TestTreePathLengths = {Log2(NumCards)}
    /\ PlaceholderSystem.status = "Ok" /\ ProverSystem.status = "Ok"
    /\ PlaceholderSystem.allocated = ProverSystem.allocated
    /\ Len(PlaceholderSystem.constraints) = Len(ProverSystem.constraints)

\* A tree of eight leaves whose paths of index 0 and of index 7 have three
\* sibling digests each.
C29_Witness ==
    /\ pc = "built" /\ Len(leaves) = 8
    /\ SiblingDigests(GenerateProof(tree, 0)) = 3
    /\ SiblingDigests(GenerateProof(tree, 7)) = 3
    /\ SiblingDigests(placeholder_circuit.auth_path) = 4
    /\ SiblingDigests(prove_showprice_circuit.auth_path) = 4

====
